---- MODULE Spec2Model ----
(***************************************************************************)
(* MnemosyneOS memory layers: the layer stores (semantic, episodic,        *)
(* procedural, affective, identity, reflective), the memories API route,   *)
(* and the reflection synthesis engine, modelled from the Python sources.  *)
(*                                                                         *)
(* Conventions                                                             *)
(*  - a collection is a function from the ids it holds to records          *)
(*    [doc, meta]; meta is a function from the metadata keys present to    *)
(*    their values (a Python dict);                                        *)
(*  - an Optional argument is <<>> for None and <<x>> for the value x;     *)
(*  - datetime.now().isoformat() is an integer reading of the wall clock;  *)
(*    `now` is the last reading, and the next reading is `now` again (the  *)
(*    clock has finite resolution) or later;                               *)
(*  - a string built from pieces (", ".join, str.split) is the sequence of *)
(*    its pieces, separators included;                                     *)
(*  - valence is scaled by 10 (1.0 is 10, 5.0 is 50).                      *)
(***************************************************************************)
EXTENDS Integers, Sequences, FiniteSets, TLC

VARIABLES coll, now, nextId, layer, ops, last, pre, gen, metaCall, inflight

vars == <<coll, now, nextId, layer, ops, last, pre, gen, metaCall, inflight>>

(* ------------------------------ bounds -------------------------------- *)
MaxOps == 3

(* --------------------------- basic values ----------------------------- *)
None == <<>>
Some(x) == <<x>>
IsNone(o) == o = <<>>
Val(o) == o[1]

EmptyMeta == [k \in {} |-> 0]

LayerNames == {"semantic", "episodic", "procedural", "affective", "identity", "reflective"}
Stores == LayerNames \cup {"api"}

(* dict.update: keys of b override keys of a *)
Merge(a, b) == [k \in (DOMAIN a) \cup (DOMAIN b) |-> IF k \in DOMAIN b THEN b[k] ELSE a[k]]

(* d[k] = v on a dict *)
Put(d, k, v) == [x \in (DOMAIN d) \cup {k} |-> IF x = k THEN v ELSE d[x]]

(* dict.get(k, default) *)
Get(d, k, default) == IF k \in DOMAIN d THEN d[k] ELSE default

(* str.strip() on a content string: the blank strings strip to "" *)
Strip(s) == IF s \in {"", " "} THEN "" ELSE s

Sep == ", "

RECURSIVE JoinTags(_)
(* ", ".join(tags): the pieces with the separator between them *)
JoinTags(tags) ==
    IF Len(tags) = 0 THEN <<>>
    ELSE IF Len(tags) = 1 THEN <<tags[1]>>
    ELSE <<tags[1], Sep>> \o JoinTags(Tail(tags))

(* uuid.uuid4(): an id never handed out before *)
Uuid4 == nextId

(* ---------------------------- layer stores ---------------------------- *)
IDENTITY_ASPECTS == {"core_values", "goals"}

(* `if tags: metadata["tags"] = ", ".join(tags)` *)
WithTags(m, tags) ==
    IF IsNone(tags) \/ Val(tags) = <<>> THEN m ELSE Put(m, "tags", JoinTags(Val(tags)))

(* `if source: metadata["source"] = source` *)
WithSource(m, source) ==
    IF IsNone(source) \/ Val(source) = "" THEN m ELSE Put(m, "source", Val(source))

(* `tags or []` *)
BaseTags(tags) == IF IsNone(tags) THEN <<>> ELSE Val(tags)

(* `if metadata is None: metadata = {}` *)
BaseMeta(metadata) == IF IsNone(metadata) THEN EmptyMeta ELSE Val(metadata)

(* the standard keys every store merges over the caller's metadata *)
StandardMeta(l, ts) ==
    [k \in {"memory_type", "created_at", "updated_at"} |->
        IF k = "memory_type" THEN l ELSE ts]

(* a store whose caller metadata would override the standard keys (not the code's order) *)
CallerWinsStoreMeta(l, metadata, tags, source, ts) ==
    WithSource(WithTags(Merge(StandardMeta(l, ts), BaseMeta(metadata)), tags), source)

(* semantic.store_memory / procedural.store_memory: the metadata written *)
PlainStoreMeta(l, metadata, tags, source, ts) ==
    WithSource(WithTags(Merge(BaseMeta(metadata), StandardMeta(l, ts)), tags), source)

(* episodic.store_memory: event_time defaults to the timestamp *)
EpisodicStoreMeta(metadata, tags, source, ts) ==
    LET base == BaseMeta(metadata)
        std  == Put(StandardMeta("episodic", ts), "event_time", Get(base, "event_time", ts))
    IN  WithSource(WithTags(Merge(base, std), tags), source)

(* affective.tag_content: valence is written as float(valence), unclamped *)
TagContentMeta(metadata, tags, valence, source, ts) ==
    LET std == Put(StandardMeta("affective", ts), "valence", valence)
    IN  WithSource(WithTags(Merge(BaseMeta(metadata), std), tags), source)

(* identity.store_identity_item: an unknown aspect becomes "other" *)
IdentityStoreMeta(aspect, metadata, tags, ts) ==
    LET a   == IF aspect \in IDENTITY_ASPECTS THEN aspect ELSE "other"
        std == Put(StandardMeta("identity", ts), "aspect", a)
    IN  WithTags(Merge(BaseMeta(metadata), std), tags)

(* json.dumps of a list of ids: the JSON text, tagged so that it is not the list *)
JsonDumps(ids) == <<"json", ids>>

(* json.loads: the list a JSON text encodes *)
JsonLoads(text) == text[2]

(* reflective.store_reflection: source_memories is JSON text, written when non-empty *)
ReflectionStoreMeta(source_memories, metadata, tags, ts) ==
    LET m0 == Merge(BaseMeta(metadata), StandardMeta("reflective", ts))
        m1 == IF IsNone(source_memories) \/ Val(source_memories) = <<>>
              THEN m0 ELSE Put(m0, "source_memories", JsonDumps(Val(source_memories)))
    IN  WithTags(m1, tags)

(* collection.add(ids=[id], documents=[doc], metadatas=[meta]) *)
CollectionAdd(c, id, doc, meta) ==
    [x \in (DOMAIN c) \cup {id} |-> IF x = id THEN [doc |-> doc, meta |-> meta] ELSE c[x]]

(* an update that would keep the stored keys the new metadata does not name
   (not the model's reading of collection.update) *)
CollectionUpdateKeys(c, id, doc, meta) ==
    [x \in DOMAIN c |-> IF x = id THEN [doc |-> doc, meta |-> Merge(c[x].meta, meta)] ELSE c[x]]

(* collection.update(ids=[id], documents=[doc], metadatas=[meta]) *)
CollectionUpdate(c, id, doc, meta) ==
    [x \in DOMAIN c |-> IF x = id THEN [doc |-> doc, meta |-> meta] ELSE c[x]]

(* a delete that would drop the whole collection (not what collection.delete does) *)
CollectionClear(c, id) == [x \in {} |-> c[x]]

(* collection.delete(ids=[id]): a missing id is ignored *)
CollectionDelete(c, id) == [x \in (DOMAIN c) \ {id} |-> c[x]]

(* max(lo, min(hi, v)) *)
Clamp(lo, hi, v) == IF v < lo THEN lo ELSE IF v > hi THEN hi ELSE v

(* ------------------------- inputs of the calls ------------------------ *)
(* caller metadata that tries to set the reserved timestamps *)
CallerMeta == ("note" :> "n1") @@ ("created_at" :> 99) @@ ("updated_at" :> 98)

(* caller metadata of the affective layer: an out-of-range intensity *)
AffectCallerMeta == ("note" :> "n1") @@ ("intensity" :> 50)

UpdateMeta == ("note" :> "n2") @@ ("extra" :> "e1")

Args(content, metadata, tags, source, valence, sources) ==
    [content |-> content, metadata |-> metadata, tags |-> tags, source |-> source,
     valence |-> valence, sources |-> sources]

(* store calls: a bare one, one with every optional argument, and blank contents *)
StoreInputs ==
    {Args("c1", None, None, None, 0, None),
     Args("c1", Some(IF layer = "affective" THEN AffectCallerMeta ELSE CallerMeta),
          Some(<<"a", "b">>), Some("src"), 50, Some(<<1>>)),
     Args("", None, None, None, -50, None),
     Args(" ", None, Some(<<"a">>), None, 0, None)}

Aspects == {"core_values", "unknown_aspect"}

(* what the completion returns to analyze_content: emotions, valence and   *)
(* intensity, or text that is not JSON                                     *)
Analyses == {[json |-> TRUE, emotions |-> <<"joy">>, valence |-> 50, intensity |-> 50],
             [json |-> FALSE, emotions |-> <<>>, valence |-> 0, intensity |-> 0]}

(* update calls: nothing, each optional argument alone, and all together;     *)
(* on the episodic layer also metadata that names created_at and updated_at  *)
UpdateInputs ==
    IF layer \in {"semantic", "procedural"}
    THEN {Args(Some("c2"), m, None, None, None, None) :
              m \in {None, Some(EmptyMeta), Some(UpdateMeta)}}
    ELSE IF layer = "episodic"
    THEN {Args(c, m, None, None, None, None) :
              c \in {None, Some("c2")}, m \in {None, Some(UpdateMeta)}}
         \cup {Args(None, Some(CallerMeta), None, None, None, None)}
    ELSE IF layer = "identity"
    THEN {Args(None, None, None, None, None, None),
          Args(Some("c2"), None, None, None, None, None),
          Args(None, Some(UpdateMeta), None, None, None, None),
          Args(None, None, Some(<<"z">>), None, None, None),
          Args(None, None, Some(<<>>), None, None, None),
          Args(Some("c2"), Some(UpdateMeta), Some(<<"z">>), None, None, None)}
    ELSE IF layer = "affective"
    THEN {Args(None, None, None, None, None, None),
          Args(Some("c2"), None, None, None, None, None),
          Args(None, Some(UpdateMeta), None, None, None, None),
          Args(None, None, Some(<<"z">>), None, None, None),
          Args(None, None, None, None, Some(50), None),
          Args(Some("c2"), Some(AffectCallerMeta), Some(<<"z">>), None, Some(-50), None)}
    ELSE IF layer = "reflective"
    THEN {Args(None, None, None, None, None, None),
          Args(Some("c2"), None, None, None, None, None),
          Args(None, None, Some(<<"z">>), None, None, None),
          Args(None, None, None, None, None, Some(<<2>>)),
          Args(Some("c2"), None, Some(<<"z">>), None, None, Some(<<2>>))}
    ELSE {}

(* the ids a caller may name: every id handed out so far and one never handed out *)
TargetIds == 1..nextId

(* a reading of datetime.datetime.now(): not before the last reading *)
ClockReads == {now, now + 1}

(* no operation of the meta layer has run *)
NoMeta == [op |-> "init"]

(* no reflection generation has run *)
NoGen == [op |-> "init"]

NoCall == [op |-> "init", id |-> 0, raised |-> FALSE, ok |-> FALSE,
           args |-> Args(None, None, None, None, None, None)]

Called(op, id, raised, ok, args) ==
    [op |-> op, id |-> id, raised |-> raised, ok |-> ok, args |-> args]

(* every call is one of the MaxOps calls of the behaviour, on the layer under test *)
Budget == ops < MaxOps /\ ops' = ops + 1 /\ UNCHANGED <<layer, gen, metaCall, inflight>>

(* the collection of layer l becomes c; the other collections stay *)
Written(l, c) == coll' = [coll EXCEPT ![l] = c] /\ pre' = coll[l]

(* a store that added (doc, meta) under a fresh id at clock reading ts *)
Stored(op, l, doc, meta, ts, args) ==
    /\ Written(l, CollectionAdd(coll[l], Uuid4, doc, meta))
    /\ nextId' = nextId + 1
    /\ now' = ts
    /\ last' = Called(op, Uuid4, FALSE, TRUE, args)

(* ------------------------------ store --------------------------------- *)
(* semantic/episodic/procedural store_memory(content, metadata, tags, source) *)
StoreMemory(l, a, ts) ==
    /\ l \in {"semantic", "episodic", "procedural"}
    /\ Budget
    /\ Stored("store", l, a.content,
              IF l = "episodic"
              THEN EpisodicStoreMeta(a.metadata, a.tags, a.source, ts)
              ELSE PlainStoreMeta(l, a.metadata, a.tags, a.source, ts),
              ts, a)

(* identity.store_identity_item(aspect, content, metadata, tags) *)
StoreIdentityItem(aspect, a, ts) ==
    /\ layer = "identity"
    /\ Budget
    /\ Stored("store", layer, a.content, IdentityStoreMeta(aspect, a.metadata, a.tags, ts), ts, a)

(* reflective.store_reflection(content, source_memories, metadata, tags) *)
StoreReflection(a, ts) ==
    /\ layer = "reflective"
    /\ Budget
    /\ Stored("store", layer, a.content,
              ReflectionStoreMeta(a.sources, a.metadata, a.tags, ts), ts, a)

(* affective.tag_content(content, tags, valence, metadata, source) *)
TagContent(a, ts) ==
    /\ layer = "affective"
    /\ Budget
    /\ Stored("store", layer, a.content,
              TagContentMeta(a.metadata, a.tags, a.valence, a.source, ts), ts, a)

(* affective.analyze_content: the sanitised analysis of a completion *)
AnalyzeContent(r) ==
    IF r.json
    THEN [emotions |-> r.emotions, valence |-> Clamp(-10, 10, r.valence),
          intensity |-> Clamp(1, 10, r.intensity)]
    ELSE [emotions |-> <<>>, valence |-> 0, intensity |-> 5]

(* affective.tag_content_auto(content, metadata, source): analyse, then tag *)
TagContentAuto(a, r, ts) ==
    /\ layer = "affective"
    /\ Budget
    /\ LET analysis == AnalyzeContent(r)
           m        == Merge(BaseMeta(a.metadata),
                             ("emotional_analysis" :> <<"json", analysis>>)
                             @@ ("intensity" :> analysis.intensity))
       IN  Stored("store_auto", layer, a.content,
                  TagContentMeta(Some(m), Some(analysis.emotions), analysis.valence,
                                 a.source, ts),
                  ts, a)

(* ------------------------------ update -------------------------------- *)
(* an update that would replace the metadata instead of merging (not the code) *)
ReplacedMeta(existing, metadata) ==
    IF IsNone(metadata) \/ Val(metadata) = EmptyMeta THEN existing ELSE Val(metadata)

(* `if metadata: existing_metadata.update(metadata)`: None and {} change nothing *)
MergedMeta(existing, metadata) ==
    IF IsNone(metadata) \/ Val(metadata) = EmptyMeta THEN existing
    ELSE Merge(existing, Val(metadata))

(* `if tags is not None: existing_metadata["tags"] = ", ".join(tags)` *)
RetaggedMeta(m, tags) == IF IsNone(tags) THEN m ELSE Put(m, "tags", JoinTags(Val(tags)))

(* `existing_metadata["updated_at"] = datetime.datetime.now().isoformat()` *)
Touched(m, ts) == Put(m, "updated_at", ts)

(* `updated_content = content if content is not None else existing_content` *)
UpdatedContent(existing, content) == IF IsNone(content) THEN existing ELSE Val(content)

(* `if valence is not None: existing_metadata["valence"] = max(-1.0, min(1.0, float(valence)))` *)
RevaluedMeta(m, valence) ==
    IF IsNone(valence) THEN m ELSE Put(m, "valence", Clamp(-10, 10, Val(valence)))

(* `if source_memories is not None: existing_metadata["source_memories"] = json.dumps(...)` *)
ResourcedMeta(m, source_memories) ==
    IF IsNone(source_memories) THEN m
    ELSE Put(m, "source_memories", JsonDumps(Val(source_memories)))

(* an update that would create the missing record (an upsert; not the code) *)
Upserted(id, args) ==
    /\ Written(layer, CollectionAdd(coll[layer], id, UpdatedContent("", args.content), EmptyMeta))
    /\ UNCHANGED <<nextId, now>>
    /\ last' = Called("update", id, FALSE, TRUE, args)

(* an update that found nothing: `if not result["ids"]: return False` *)
NotFound(id, args) ==
    /\ UNCHANGED <<coll, nextId, now>>
    /\ pre' = coll[layer]
    /\ last' = Called("update", id, FALSE, FALSE, args)

(* an update that wrote the record (doc, meta) at clock reading ts and returned True *)
Updated(id, doc, meta, ts, args) ==
    /\ Written(layer, CollectionUpdate(coll[layer], id, doc, meta))
    /\ UNCHANGED nextId
    /\ now' = ts
    /\ last' = Called("update", id, FALSE, TRUE, args)

(* semantic/procedural update_memory(memory_id, content, metadata): content is required *)
UpdateMemory(id, a, ts) ==
    /\ layer \in {"semantic", "procedural"}
    /\ Budget
    /\ IF id \notin DOMAIN coll[layer]
       THEN NotFound(id, a)
       ELSE Updated(id, Val(a.content),
                    Touched(MergedMeta(coll[layer][id].meta, a.metadata), ts), ts, a)

(* episodic.update_memory(memory_id, content=None, metadata=None) *)
UpdateEpisodicMemory(id, a, ts) ==
    /\ layer = "episodic"
    /\ Budget
    /\ IF id \notin DOMAIN coll[layer]
       THEN NotFound(id, a)
       ELSE Updated(id, UpdatedContent(coll[layer][id].doc, a.content),
                    Touched(MergedMeta(coll[layer][id].meta, a.metadata), ts), ts, a)

(* identity.update_identity_item(item_id, content=None, metadata=None, tags=None) *)
UpdateIdentityItem(id, a, ts) ==
    /\ layer = "identity"
    /\ Budget
    /\ IF id \notin DOMAIN coll[layer]
       THEN NotFound(id, a)
       ELSE Updated(id, UpdatedContent(coll[layer][id].doc, a.content),
                    Touched(RetaggedMeta(MergedMeta(coll[layer][id].meta, a.metadata),
                                         a.tags), ts),
                    ts, a)

(* affective.update_affect(affect_id, content, tags, valence, metadata) *)
UpdateAffect(id, a, ts) ==
    /\ layer = "affective"
    /\ Budget
    /\ IF id \notin DOMAIN coll[layer]
       THEN NotFound(id, a)
       ELSE Updated(id, UpdatedContent(coll[layer][id].doc, a.content),
                    Touched(RevaluedMeta(RetaggedMeta(MergedMeta(coll[layer][id].meta,
                                                                 a.metadata),
                                                      a.tags), a.valence), ts),
                    ts, a)

(* reflective.update_reflection(reflection_id, content, source_memories, tags) *)
UpdateReflection(id, a, ts) ==
    /\ layer = "reflective"
    /\ Budget
    /\ IF id \notin DOMAIN coll[layer]
       THEN NotFound(id, a)
       ELSE Updated(id, UpdatedContent(coll[layer][id].doc, a.content),
                    Touched(RetaggedMeta(ResourcedMeta(coll[layer][id].meta, a.sources),
                                         a.tags), ts),
                    ts, a)

(* ------------------------------ delete -------------------------------- *)
(* delete_memory / delete_identity_item / delete_affect / delete_reflection *)
DeleteMemoryIn(l, id) ==
    /\ l \in LayerNames
    /\ Budget
    /\ Written(l, CollectionDelete(coll[l], id))
    /\ UNCHANGED <<nextId, now>>
    /\ last' = Called("delete", id, FALSE, TRUE, Args(None, None, None, None, None, None))

(* a delete on the layer under test *)
DeleteMemory(id) == DeleteMemoryIn(layer, id)

(* --------------------------- memories route --------------------------- *)
(* MemoryService.add_memory + ChromaVectorStore.upsert: the stored payload *)
AddMemoryPayload(metadata, category, ts) ==
    ("category" :> category) @@ ("metadata" :> BaseMeta(metadata)) @@ ("created_at" :> ts)

(* POST /memories: create_memory rejects blank content with HTTP 400 *)
CreateMemory(a, category, ts) ==
    /\ layer = "api"
    /\ Budget
    /\ IF a.content = "" \/ Strip(a.content) = ""
       THEN /\ UNCHANGED <<coll, nextId, now>>
            /\ pre' = coll[layer]
            /\ last' = Called("store", 0, TRUE, FALSE, a)
       ELSE Stored("store", layer, a.content, AddMemoryPayload(a.metadata, category, ts), ts, a)

(* ------------------------------ behaviour ----------------------------- *)
Init ==
    /\ layer \in Stores
    /\ coll = [l \in Stores |-> EmptyMeta]
    /\ now = 0
    /\ nextId = 1
    /\ ops = 0
    /\ last = NoCall
    /\ pre = EmptyMeta
    /\ gen = NoGen
    /\ metaCall = NoMeta
    /\ inflight = <<>>

Store ==
    \E a \in StoreInputs, ts \in ClockReads :
        \/ StoreMemory(layer, a, ts)
        \/ \E aspect \in Aspects :
               /\ aspect = "unknown_aspect" => a = Args("c1", None, None, None, 0, None)
               /\ StoreIdentityItem(aspect, a, ts)
        \/ StoreReflection(a, ts)
        \/ TagContent(a, ts)
        \/ \E r \in Analyses : a.content = "c1" /\ TagContentAuto(a, r, ts)
        \/ CreateMemory(a, "project", ts)

Update ==
    \E id \in TargetIds, a \in UpdateInputs, ts \in ClockReads :
        \/ UpdateMemory(id, a, ts)
        \/ UpdateEpisodicMemory(id, a, ts)
        \/ UpdateIdentityItem(id, a, ts)
        \/ UpdateAffect(id, a, ts)
        \/ UpdateReflection(id, a, ts)

Delete == \E id \in TargetIds : DeleteMemory(id)

Next == Store \/ Update \/ Delete

Spec == Init /\ [][Next]_vars

(* ===================== reflection synthesis engine ===================== *)
(* Text in this part is a sequence of pieces (words, " ", "\n", ","); a      *)
(* response is the sequence of its lines, a "---" separator being a line of *)
(* its own; a text of one piece stands for that piece.                      *)

(* stop_after_attempt(3) *)
MaxAttempts == 3

(* datetime.timedelta(days=7), the clock counting days *)
Week == 7

Whitespace == {" ", "\n"}

RECURSIVE LStrip(_)
LStrip(t) == IF t # <<>> /\ Head(t) \in Whitespace THEN LStrip(Tail(t)) ELSE t

RECURSIVE RStrip(_)
RStrip(t) ==
    IF t # <<>> /\ t[Len(t)] \in Whitespace THEN RStrip(SubSeq(t, 1, Len(t) - 1)) ELSE t

(* str.strip() on a text *)
StripText(t) == RStrip(LStrip(t))

RECURSIVE SplitOn(_, _)
(* str.split(sep): the parts between the occurrences of sep, empty parts kept *)
SplitOn(t, sep) ==
    IF t = <<>> THEN << <<>> >>
    ELSE LET rest == SplitOn(Tail(t), sep)
         IN  IF Head(t) = sep THEN << <<>> >> \o rest
             ELSE << <<Head(t)>> \o Head(rest) >> \o Tail(rest)

RECURSIVE JoinLines(_)
(* "\n".join(lines) *)
JoinLines(lines) ==
    IF lines = <<>> THEN <<>>
    ELSE IF Len(lines) = 1 THEN lines[1]
    ELSE lines[1] \o <<"\n">> \o JoinLines(Tail(lines))

(* the string a text of one piece stands for *)
Word(t) == IF Len(t) = 1 THEN t[1] ELSE t

SeparatorLine == <<"---">>

HEADERS == {"REFLECTION:", "EVIDENCE:", "IMPLICATIONS:", "TAGS:"}

(* `line in ["REFLECTION:", "EVIDENCE:", "IMPLICATIONS:", "TAGS:"]` *)
IsHeader(line) == Len(line) = 1 /\ line[1] \in HEADERS

(* `line.replace(":", "").lower()` on a header line *)
SectionName(line) ==
    CASE line[1] = "REFLECTION:" -> "reflection"
      [] line[1] = "EVIDENCE:" -> "evidence"
      [] line[1] = "IMPLICATIONS:" -> "implications"
      [] line[1] = "TAGS:" -> "tags"

(* the scanner before the first line of a chunk *)
ScanStart == [sections |-> EmptyMeta, current_section |-> None, current_content |-> <<>>]

(* one turn of the loop over the lines of a chunk *)
ScanLine(st, raw) ==
    LET line == StripText(raw)
    IN  IF line = <<>> THEN st
        ELSE IF IsHeader(line)
        THEN [sections |-> IF IsNone(st.current_section) THEN st.sections
                           ELSE Put(st.sections, Val(st.current_section),
                                    JoinLines(st.current_content)),
              current_section |-> Some(SectionName(line)),
              current_content |-> <<>>]
        ELSE IF IsNone(st.current_section) THEN st
        ELSE [st EXCEPT !.current_content = Append(@, line)]

RECURSIVE ScanLines(_, _)
ScanLines(st, lines) ==
    IF lines = <<>> THEN st ELSE ScanLines(ScanLine(st, Head(lines)), Tail(lines))

(* `if current_section and current_content: sections[current_section] = ...` *)
FlushLast(st) ==
    IF IsNone(st.current_section) \/ st.current_content = <<>> THEN st.sections
    ELSE Put(st.sections, Val(st.current_section), JoinLines(st.current_content))

(* `[tag.strip() for tag in tags_text.split(",") if tag.strip()]` *)
ParseTags(tags_text) ==
    LET parts == SplitOn(tags_text, ",")
        kept  == SelectSeq([i \in 1..Len(parts) |-> StripText(parts[i])],
                           LAMBDA t : t # <<>>)
    IN  [i \in 1..Len(kept) |-> Word(kept[i])]

(* the content of a reflection: its body, then Evidence and Implications blocks *)
ReflectionContent(sections) ==
    Get(sections, "reflection", <<>>)
    \o (IF "evidence" \in DOMAIN sections
        THEN <<"\n\nEvidence:\n">> \o sections["evidence"] ELSE <<>>)
    \o (IF "implications" \in DOMAIN sections
        THEN <<"\n\nImplications:\n">> \o sections["implications"] ELSE <<>>)

(* `if not raw_reflection.strip(): continue` *)
BlankChunk(chunk) == \A i \in 1..Len(chunk) : StripText(chunk[i]) = <<>>

(* the reflections one chunk yields: one, or none *)
ParseChunk(chunk, memory_ids) ==
    IF BlankChunk(chunk) THEN <<>>
    ELSE LET sections == FlushLast(ScanLines(ScanStart, chunk))
         IN  IF "reflection" \notin DOMAIN sections THEN <<>>
             ELSE << [content |-> ReflectionContent(sections),
                      source_memory_ids |-> memory_ids,
                      tags |-> IF "tags" \in DOMAIN sections
                               THEN ParseTags(sections["tags"]) ELSE <<>>] >>

RECURSIVE ParseChunks(_, _)
ParseChunks(chunks, memory_ids) ==
    IF chunks = <<>> THEN <<>>
    ELSE ParseChunk(Head(chunks), memory_ids) \o ParseChunks(Tail(chunks), memory_ids)

NoPatternContent ==
    <<"Reflection generated from analyzing recent memories. No specific patterns identified.">>

(* the reflection that stands in when nothing was parsed *)
DefaultReflection(memory_ids) ==
    [content |-> NoPatternContent, source_memory_ids |-> memory_ids,
     tags |-> <<"general", "reflection">>]

(* a parse that would return nothing when no chunk has a reflection (not the code's) *)
ParseWithoutDefault(response, memory_ids) ==
    ParseChunks(SplitOn(response, SeparatorLine), memory_ids)

(* reflective._parse_reflection_response(response, memory_ids) *)
ParseReflectionResponse(response, memory_ids) ==
    LET reflections == ParseChunks(SplitOn(response, SeparatorLine), memory_ids)
    IN  IF reflections = <<>> THEN <<DefaultReflection(memory_ids)>> ELSE reflections

(* -------------------------- completion providers ---------------------- *)
(* What the backend does to one generate_text call: `fails` attempts end in  *)
(* a rate limit or a timeout, and the attempt after them, if it is made,    *)
(* ends as `final` says: "ok" with the text `response`, or "fatal" (an      *)
(* error that is not retried, such as a rejected key).                      *)
Backend(fails, final, response) == [fails |-> fails, final |-> final, response |-> response]

(* what a provider call gives back: a text, or an exception, after `calls` attempts *)
Returned(text, calls) == [raised |-> FALSE, text |-> text, calls |-> calls]
Raised(calls) == [raised |-> TRUE, text |-> <<>>, calls |-> calls]

(* OpenAIProvider.generate_text: rate limits and timeouts are retried and   *)
(* re-raised; any other error comes back as text                            *)
OpenAIGenerateText(b) ==
    IF b.fails >= MaxAttempts THEN Raised(MaxAttempts)
    ELSE IF b.final = "ok" THEN Returned(b.response, b.fails + 1)
    ELSE Returned(<< <<"Error generating text: ", "fatal">> >>, b.fails + 1)

(* AnthropicProvider.generate_chat: 429 and timeouts are retried and        *)
(* re-raised; any other error comes back as text                            *)
AnthropicGenerateChat(b) ==
    IF b.fails >= MaxAttempts THEN Raised(MaxAttempts)
    ELSE IF b.final = "ok" THEN Returned(b.response, b.fails + 1)
    ELSE Returned(<< <<"Error generating chat response: ", "fatal">> >>, b.fails + 1)

(* AnthropicProvider.generate_text: whatever generate_chat raises comes back as text *)
AnthropicGenerateText(b) ==
    LET r == AnthropicGenerateChat(b)
    IN  IF r.raised THEN Returned(<< <<"Error generating text: ", "RetryError">> >>, r.calls)
        ELSE r

(* DeepSeekProvider.generate_chat *)
DeepSeekGenerateChat(b) ==
    IF b.fails >= MaxAttempts THEN Raised(MaxAttempts)
    ELSE IF b.final = "ok" THEN Returned(b.response, b.fails + 1)
    ELSE Returned(<< <<"Error generating chat response: ", "fatal">> >>, b.fails + 1)

(* DeepSeekProvider.generate_text *)
DeepSeekGenerateText(b) ==
    LET r == DeepSeekGenerateChat(b)
    IN  IF r.raised THEN Returned(<< <<"Error generating text: ", "RetryError">> >>, r.calls)
        ELSE r

(* provider.get_llm().generate_text(prompt): OpenAI unless configured otherwise *)
GenerateText(provider, b) ==
    IF provider = "anthropic" THEN AnthropicGenerateText(b)
    ELSE IF provider = "deepseek" THEN DeepSeekGenerateText(b)
    ELSE OpenAIGenerateText(b)

(* ------------------------------ sampling ------------------------------ *)
RECURSIVE SortedIds(_)
(* the ids of a collection in the order they were added *)
SortedIds(S) ==
    IF S = {} THEN <<>>
    ELSE LET m == CHOOSE x \in S : \A y \in S : x <= y
         IN  <<m>> \o SortedIds(S \ {m})

(* the first n of a list: `limit=n`, `n_results=n`, `[:n]` *)
Take(q, n) == SubSeq(q, 1, IF Len(q) < n THEN Len(q) ELSE n)

(* the memories a retrieval returns, labelled with their layer *)
Labelled(ids, l) == [i \in 1..Len(ids) |-> [id |-> ids[i], memory_type |-> l]]

(* collection.query(query_texts=[query], n_results=n): the n nearest records; *)
(* the ranking of the vector index is taken to be the order of insertion     *)
RetrieveMemories(l, n) == Labelled(Take(SortedIds(DOMAIN coll[l]), n), l)

(* {"tags": {"$contains": tag}} on the joined tags of a record *)
ContainsTag(m, tag) ==
    "tags" \in DOMAIN m /\ \E i \in 1..Len(m["tags"]) : m["tags"][i] = tag

(* the filter the loop `for tag in tags: where_filter["tags"] = ...` leaves: the last tag *)
WhereTag(tags) == tags[Len(tags)]

(* collection.get(where=where_filter, limit=n) with the tag filter *)
GetByTag(l, tags, n) ==
    Labelled(Take(SelectSeq(SortedIds(DOMAIN coll[l]),
                            LAMBDA id : ContainsTag(coll[l][id].meta, WhereTag(tags))),
                  n), l)

(* collection.get(limit=n) *)
GetSample(l, n) == Labelled(Take(SortedIds(DOMAIN coll[l]), n), l)

EventTime(id) == coll["episodic"][id].meta["event_time"]

RECURSIVE SortByEventTime(_)
(* memories.sort(key=event_time): a stable insertion of each id after its equals *)
SortByEventTime(ids) ==
    IF ids = <<>> THEN <<>>
    ELSE LET rest == SortByEventTime(SubSeq(ids, 1, Len(ids) - 1))
             x    == ids[Len(ids)]
             k    == Cardinality({i \in 1..Len(rest) : EventTime(rest[i]) <= EventTime(x)})
         IN  SubSeq(rest, 1, k) \o <<x>> \o SubSeq(rest, k + 1, Len(rest))

(* a timeframe retrieval that would not look at start_date (not the code's) *)
RetrieveUpTo(start_date, end_date, n) ==
    Labelled(SortByEventTime(
                 Take(SelectSeq(SortedIds(DOMAIN coll["episodic"]),
                                LAMBDA id : EventTime(id) <= end_date),
                      n)),
             "episodic")

(* episodic.retrieve_by_timeframe(start_date, limit=n), end_date the clock reading *)
RetrieveByTimeframe(start_date, end_date, n) ==
    Labelled(SortByEventTime(
                 Take(SelectSeq(SortedIds(DOMAIN coll["episodic"]),
                                LAMBDA id : /\ EventTime(id) >= start_date
                                            /\ EventTime(id) <= end_date),
                      n)),
             "episodic")

(* a share that would round the division up (not the code's) *)
ShareCeil(max_memories, parts) == (max_memories + parts - 1) \div parts

(* `max_memories // 3`, `// 2`, `// 4`: the limit handed to one layer *)
Share(max_memories, parts) == max_memories \div parts

(* all_memories of _get_memories_for_reflection: the candidates of the query,
   tags or recency branch, in the order they are appended *)
AllMemories(query, tags, max_memories, ts) ==
    IF ~IsNone(query) /\ Val(query) # ""
    THEN RetrieveMemories("episodic", Share(max_memories, 3))
         \o RetrieveMemories("semantic", Share(max_memories, 3))
         \o RetrieveMemories("procedural", Share(max_memories, 3))
    ELSE IF ~IsNone(tags) /\ Val(tags) # <<>>
    THEN GetByTag("episodic", Val(tags), Share(max_memories, 3))
         \o GetByTag("semantic", Val(tags), Share(max_memories, 3))
         \o GetByTag("procedural", Val(tags), Share(max_memories, 3))
    ELSE RetrieveByTimeframe(ts - Week, ts, Share(max_memories, 2))
         \o GetSample("semantic", Share(max_memories, 4))
         \o GetSample("procedural", Share(max_memories, 4))

(* a sampling that would hand the candidates over last-collected first
   (not the code's) *)
GetMemoriesLastFirst(query, tags, max_memories, ts) ==
    LET kept == Take(AllMemories(query, tags, max_memories, ts), max_memories)
    IN  [i \in 1..Len(kept) |-> kept[Len(kept) + 1 - i]]

(* reflective._get_memories_for_reflection(query, None, tags, max_memories):
   `return all_memories[:max_memories]` *)
GetMemoriesForReflection(query, tags, max_memories, ts) ==
    Take(AllMemories(query, tags, max_memories, ts), max_memories)

(* ----------------------------- generation ----------------------------- *)
RECURSIVE TypesInOrder(_)
(* the keys of memories_by_type, in the order they were first seen *)
TypesInOrder(memories) ==
    IF memories = <<>> THEN <<>>
    ELSE LET t == Head(memories).memory_type
         IN  <<t>> \o TypesInOrder(SelectSeq(Tail(memories), LAMBDA m : m.memory_type # t))

(* the ids of a list of memories, in its order *)
IdsOf(memories) == [i \in 1..Len(memories) |-> memories[i].id]

RECURSIVE IdsByType(_, _)
IdsByType(types, memories) ==
    IF types = <<>> THEN <<>>
    ELSE IdsOf(SelectSeq(memories, LAMBDA m : m.memory_type = Head(types)))
         \o IdsByType(Tail(types), memories)

(* ids that would cover only the first memory type (not the code's list) *)
FirstTypeIds(source_memories) ==
    IdsOf(SelectSeq(source_memories,
                    LAMBDA m : m.memory_type = Head(source_memories).memory_type))

(* memory_ids: the ids of the memories, type by type *)
MemoryIds(source_memories) == IdsByType(TypesInOrder(source_memories), source_memories)

(* the reflection returned when the completion call raised *)
ErrorReflection(memory_ids) ==
    [content |-> <<"Error generating reflections: ", "RetryError">>,
     source_memory_ids |-> memory_ids,
     tags |-> <<"error", "reflection_generation">>]

(* reflective._generate_reflections_with_llm(source_memories) *)
GenerateReflectionsWithLLM(source_memories, provider, b) ==
    LET memory_ids == MemoryIds(source_memories)
        r          == GenerateText(provider, b)
    IN  [raised |-> FALSE, calls |-> r.calls,
         reflections |-> IF r.raised THEN <<ErrorReflection(memory_ids)>>
                         ELSE ParseReflectionResponse(r.text, memory_ids)]

(* a generation that would call the completion whatever was sampled (not the code's) *)
ResultsWithoutShortCircuit(source_memories, provider, b) ==
    GenerateReflectionsWithLLM(source_memories, provider, b)

(* generate_reflections, steps 1 and 2: nothing sampled, nothing asked *)
ReflectionResults(source_memories, provider, b) ==
    IF source_memories = <<>> THEN [raised |-> FALSE, calls |-> 0, reflections |-> <<>>]
    ELSE GenerateReflectionsWithLLM(source_memories, provider, b)

RECURSIVE StoreReflections(_, _, _, _, _, _)
(* generate_reflections, step 3: store_reflection for each reflection in turn *)
StoreReflections(c, id, reflections, query, tags, ts) ==
    IF reflections = <<>> THEN c
    ELSE LET r == Head(reflections)
             metadata == IF ~IsNone(query) /\ Val(query) # ""
                         THEN Some("query" :> Val(query)) ELSE Some(EmptyMeta)
             meta == ReflectionStoreMeta(Some(r.source_memory_ids), metadata,
                                         Some(r.tags \o BaseTags(tags)), ts)
         IN  StoreReflections(CollectionAdd(c, id, r.content, meta), id + 1,
                              Tail(reflections), query, tags, ts)

(* a step 3 that would also consume the episodic memories it read (not the code's) *)
ReflectedAndConsumed(c, id, reflections, query, tags, ts) ==
    [c EXCEPT !["reflective"] = StoreReflections(@, id, reflections, query, tags, ts),
              !["episodic"] = EmptyMeta]

(* the collections after step 3: only the reflective one is written *)
Reflected(c, id, reflections, query, tags, ts) ==
    [c EXCEPT !["reflective"] = StoreReflections(@, id, reflections, query, tags, ts)]

(* a call generate_reflections(query, None, tags, max_source_memories) *)
Request(query, tags, max) == [query |-> query, tags |-> tags, max_source_memories |-> max]

(* reflective.generate_reflections, from sampling to the stored reflections *)
GenerateReflections(req, provider, b, ts) ==
    /\ ops < MaxOps /\ ops' = ops + 1
    /\ UNCHANGED <<layer, last, pre, metaCall, inflight>>
    /\ LET source_memories == GetMemoriesForReflection(req.query, req.tags,
                                                       req.max_source_memories, ts)
           res == ReflectionResults(source_memories, provider, b)
           n   == Len(res.reflections)
       IN  /\ coll' = Reflected(coll, nextId, res.reflections, req.query, req.tags, ts)
           /\ nextId' = nextId + n
           /\ now' = ts
           /\ gen' = [op |-> "reflect", request |-> req, provider |-> provider,
                      backend |-> b, source_memories |-> source_memories,
                      all_memories |-> AllMemories(req.query, req.tags,
                                                   req.max_source_memories, ts),
                      calls |-> res.calls, raised |-> res.raised,
                      returned |-> [i \in 1..n |->
                                       [id |-> nextId + i - 1,
                                        content |-> res.reflections[i].content,
                                        source_memory_ids |-> res.reflections[i].source_memory_ids,
                                        tags |-> res.reflections[i].tags]],
                      before |-> coll["reflective"]]

(* ----------------------- inputs of the generation -------------------- *)
(* the memories the source layers are seeded with: a bare one, and one with  *)
(* tags and an event_time more than a week old                              *)
SeedInputs ==
    {Args("m1", None, None, None, None, None),
     Args("m2", Some("event_time" :> 0 - 10), Some(<<"a", "b">>), None, None, None)}

TagsLine == <<"t1", ",", " ", "t2", ",", " ">>

(* a reflection with evidence and tags *)
ChunkFull ==
    << <<"REFLECTION:">>, <<"insight", " ", "one">>, <<>>, <<"EVIDENCE:">>,
       <<"cites", " ", "m1">>, <<"TAGS:">>, TagsLine >>

(* a reflection under an indented header, its body on two lines *)
ChunkPlain == << <<" ", "REFLECTION:", " ">>, <<"insight", " ", "two">>, <<" ">>, <<"more">> >>

ChunkProse == << <<"just", " ", "prose">> >>

ChunkEvidenceOnly == << <<"EVIDENCE:">>, <<"cites">> >>

(* the header and its text on one line: not a header line *)
ChunkInline == << <<"REFLECTION:", " ", "inline">> >>

(* a header with nothing under it, last in its chunk *)
ChunkBareHeader == << <<"REFLECTION:">> >>

(* a header with nothing under it, followed by another section *)
ChunkEmptyBody == << <<"REFLECTION:">>, <<"EVIDENCE:">>, <<"cites">> >>

Responses ==
    {<<>>,
     ChunkFull,
     ChunkFull \o <<SeparatorLine>> \o ChunkPlain \o <<SeparatorLine>>,
     ChunkPlain \o <<SeparatorLine>> \o ChunkFull \o <<SeparatorLine>> \o ChunkPlain,
     ChunkProse,
     ChunkEvidenceOnly \o <<SeparatorLine>> \o ChunkInline,
     ChunkFull \o <<SeparatorLine>> \o ChunkProse,
     ChunkBareHeader,
     ChunkEmptyBody}

Recent == Request(None, None, 4)
ByQuery == Request(Some("q"), Some(<<"a">>), 10)
ByTags == Request(None, Some(<<"b", "a">>), 4)

(* the calls and what the provider's backend does to each: every response    *)
(* through OpenAI, each provider failing once, always, or for good, and a   *)
(* request for two tags of which the stored memories carry only the last    *)
Generations ==
    {<<Recent, "openai", Backend(0, "ok", r)>> : r \in Responses}
    \cup {<<Recent, p, b>> : p \in {"openai", "anthropic", "deepseek"},
                             b \in {Backend(MaxAttempts, "ok", ChunkFull),
                                    Backend(0, "fatal", ChunkFull)}}
    \cup {<<Recent, "openai", Backend(1, "ok", ChunkFull)>>,
          <<Recent, "anthropic", Backend(0, "ok", ChunkFull)>>}
    \cup {<<Request(None, Some(<<"c", "a">>), 4), "openai", Backend(0, "ok", ChunkFull)>>}
    \cup {<<Request(q, t, 2), "openai", Backend(0, "ok", ChunkFull)>> :
              q \in {None, Some("q")}, t \in {None, Some(<<"a">>)}}
    \cup {<<req, "openai", b>> : req \in {ByQuery, ByTags},
                                  b \in {Backend(0, "ok", ChunkFull \o <<SeparatorLine>> \o ChunkPlain),
                                         Backend(MaxAttempts, "ok", ChunkFull)}}

(* --------------------- behaviour of the generation -------------------- *)
InitReflect ==
    /\ layer = "reflective"
    /\ coll = [l \in Stores |-> EmptyMeta]
    /\ now = 0
    /\ nextId = 1
    /\ ops = 0
    /\ last = NoCall
    /\ pre = EmptyMeta
    /\ gen = NoGen
    /\ metaCall = NoMeta
    /\ inflight = <<>>

(* a memory is stored in one of the source layers *)
Remember ==
    \E l \in {"episodic", "semantic", "procedural"}, a \in SeedInputs :
        StoreMemory(l, a, now + 1)

Reflect == \E g \in Generations : GenerateReflections(g[1], g[2], g[3], now + 1)

NextReflect == Remember \/ Reflect

SpecReflect == InitReflect /\ [][NextReflect]_vars

(* ============================== meta layer ============================ *)
(* the keys of MEMORY_MODULES, in the order of the dict *)
MEMORY_MODULES == <<"semantic", "episodic", "procedural", "reflective", "affective", "identity">>

(* the elements of a list *)
Range(q) == {q[i] : i \in 1..Len(q)}

(* a selection that would take the records at the cutoff too (not the code's filter) *)
UpToCutoffIds(c, cutoff_date) ==
    {id \in DOMAIN c : "created_at" \in DOMAIN c[id].meta
                       /\ c[id].meta["created_at"] <= cutoff_date}

(* collection.get(where={"created_at": {"$lt": cutoff_date}}): the ids selected *)
OldIds(c, cutoff_date) ==
    {id \in DOMAIN c : "created_at" \in DOMAIN c[id].meta
                       /\ c[id].meta["created_at"] < cutoff_date}

(* `[memory_type] if memory_type else MEMORY_MODULES.keys()` *)
PruneTypes(memory_type) ==
    IF IsNone(memory_type) \/ Val(memory_type) = "" THEN MEMORY_MODULES
    ELSE <<Val(memory_type)>>

(* results[mem_type] of prune_old_memories *)
PruneResult(c, mem_type, cutoff_date, dry_run) ==
    IF mem_type \notin Range(MEMORY_MODULES)
    THEN [status |-> "error"]
    ELSE LET count_before == Cardinality(DOMAIN c[mem_type])
             old_count    == Cardinality(OldIds(c[mem_type], cutoff_date))
         IN  IF ~dry_run /\ old_count > 0
             THEN [status |-> "success", count_before |-> count_before,
                   count_after |-> count_before - old_count,
                   memories_deleted |-> old_count]
             ELSE [status |-> "dry_run", count |-> count_before,
                   memories_to_delete |-> old_count]

(* a prune that would also remove the reflections listing a removed memory
   (not the code's) *)
PrunedWithDependents(c, memory_types, cutoff_date, dry_run) ==
    LET Selected(l) == IF l \in Range(memory_types) /\ l \in Range(MEMORY_MODULES) /\ ~dry_run
                       THEN OldIds(c[l], cutoff_date) ELSE {}
        removed     == UNION {Selected(l) : l \in DOMAIN c}
        Dependent(l, id) ==
            /\ l = "reflective"
            /\ "source_memories" \in DOMAIN c[l][id].meta
            /\ Range(JsonLoads(c[l][id].meta["source_memories"])) \cap removed # {}
    IN  [l \in DOMAIN c |->
            [id \in {x \in (DOMAIN c[l]) \ Selected(l) : ~Dependent(l, x)} |-> c[l][id]]]

(* the collections after prune_old_memories: collection.delete(ids=old_memories["ids"]) *)
Pruned(c, memory_types, cutoff_date, dry_run) ==
    [l \in DOMAIN c |->
        IF l \in Range(memory_types) /\ l \in Range(MEMORY_MODULES) /\ ~dry_run
        THEN [id \in (DOMAIN c[l]) \ OldIds(c[l], cutoff_date) |-> c[l][id]]
        ELSE c[l]]

(* meta.prune_old_memories(memory_type, days_to_keep, dry_run) *)
PruneOldMemories(memory_type, days_to_keep, dry_run, ts) ==
    /\ ops < MaxOps /\ ops' = ops + 1
    /\ UNCHANGED <<layer, last, pre, gen, nextId, inflight>>
    /\ LET cutoff_date  == ts - days_to_keep
           memory_types == PruneTypes(memory_type)
       IN  /\ coll' = Pruned(coll, memory_types, cutoff_date, dry_run)
           /\ now' = ts
           /\ metaCall' = [op |-> "prune", memory_type |-> memory_type,
                       days_to_keep |-> days_to_keep, dry_run |-> dry_run,
                       status |-> "completed", cutoff_date |-> cutoff_date,
                       results |-> [t \in Range(memory_types) |->
                                       PruneResult(coll, t, cutoff_date, dry_run)],
                       before |-> coll]

(* ------------------------------ reindex ------------------------------- *)
(* batch_size of the model (1000 in reindex_memory, 100 in batch_add_to_collection) *)
BatchSize == 1

RECURSIVE Batches(_, _)
(* `for i in range(0, len(items), batch_size): items[i:i+batch_size]` *)
Batches(items, batch_size) ==
    IF items = <<>> THEN <<>>
    ELSE <<Take(items, batch_size)>>
         \o Batches(SubSeq(items, batch_size + 1, Len(items)), batch_size)

(* all_data of reindex_memory: every record of the collection, read page by page *)
AllData(c) ==
    LET ids == SortedIds(DOMAIN c)
    IN  [i \in 1..Len(ids) |->
            [id |-> ids[i], document |-> c[ids[i]].doc, metadata |-> c[ids[i]].meta]]

RECURSIVE AddAll(_, _)
(* collection.add(ids, documents, metadatas, embeddings) of a list of items *)
AddAll(c, items) ==
    IF items = <<>> THEN c
    ELSE AddAll(CollectionAdd(c, Head(items).id, Head(items).document, Head(items).metadata),
                Tail(items))

(* A failure of the vector store during a reindex: `at` = 0 is create_collection
   failing, `at` = k >= 1 is the k-th collection.add failing; a reindex with
   fewer than k batches is not affected. NoFailure: the store never fails. *)
NoFailure == [layer |-> "", at |-> 0]

Interrupted(c, mem_type, fail) ==
    /\ fail.layer = mem_type
    /\ fail.at <= Len(Batches(AllData(c[mem_type]), BatchSize))

(* a recreation that would reinsert nothing (not the code's) *)
RecreatedEmpty(c, mem_type, fail) == EmptyMeta

(* delete_collection, create_collection and the reinsertion of all_data batch
   by batch, up to the failure if there is one *)
Recreated(c, mem_type, fail) ==
    LET batches == Batches(AllData(c[mem_type]), BatchSize)
        done    == IF Interrupted(c, mem_type, fail)
                   THEN (IF fail.at = 0 THEN 0 ELSE fail.at - 1)
                   ELSE Len(batches)
    IN  AddAll(EmptyMeta, Take(AllData(c[mem_type]), done * BatchSize))

(* results[mem_type] of reindex_memory *)
ReindexResult(c, mem_type, fail) ==
    IF mem_type \notin Range(MEMORY_MODULES)
    THEN [status |-> "error", message |-> "Unknown memory type"]
    ELSE IF Interrupted(c, mem_type, fail)
    THEN [status |-> "error", message |-> "Collection recreation failed"]
    ELSE [status |-> "success",
          count_before |-> Cardinality(DOMAIN c[mem_type]),
          count_after |-> Cardinality(DOMAIN Recreated(c, mem_type, fail))]

(* meta.reindex_memory(memory_type), the vector store failing as `fail` says *)
ReindexMemory(memory_type, fail, ts) ==
    /\ ops < MaxOps /\ ops' = ops + 1
    /\ UNCHANGED <<layer, last, pre, gen, nextId, inflight>>
    /\ now' = ts
    /\ LET memory_types == PruneTypes(memory_type)
       IN  /\ coll' = [l \in DOMAIN coll |->
                         IF l \in Range(memory_types) /\ l \in Range(MEMORY_MODULES)
                         THEN Recreated(coll, l, fail) ELSE coll[l]]
           /\ metaCall' = [op |-> "reindex", memory_type |-> memory_type, fail |-> fail,
                           raised |-> FALSE, status |-> "completed",
                           results |-> [t \in Range(memory_types) |->
                                           ReindexResult(coll, t, fail)],
                           before |-> coll]

(* ---------------------------- batched insert -------------------------- *)
(* store.chroma.batch_add_to_collection(collection_name, documents, metadatas,
   ids=None, batch_size): ids are generated, the documents are added chunk by
   chunk; fail_at = k >= 1 is the k-th collection.add failing (0: none fails),
   and the exception is logged and re-raised *)
BatchAddToCollection(collection_name, documents, metadatas, batch_size, fail_at, ts) ==
    /\ ops < MaxOps /\ ops' = ops + 1
    /\ UNCHANGED <<layer, last, pre, gen, inflight>>
    /\ now' = ts
    /\ nextId' = nextId + Len(documents)
    /\ LET ids     == [i \in 1..Len(documents) |-> nextId + i - 1]
           items   == [i \in 1..Len(documents) |->
                          [id |-> ids[i], document |-> documents[i],
                           metadata |-> metadatas[i]]]
           batches == Batches(items, batch_size)
           failed  == fail_at >= 1 /\ fail_at <= Len(batches)
           done    == IF failed THEN fail_at - 1 ELSE Len(batches)
       IN  /\ coll' = [coll EXCEPT ![collection_name] =
                          AddAll(coll[collection_name], Take(items, done * batch_size))]
           /\ metaCall' = [op |-> "batch_add", collection_name |-> collection_name,
                           ids |-> ids, batch_size |-> batch_size, fail_at |-> fail_at,
                           outcome |-> IF failed THEN [raised |-> TRUE]
                                       ELSE [raised |-> FALSE, returned |-> ids],
                           before |-> coll]

(* --------------------------- memory graph ----------------------------- *)
(* `memory_types if memory_types else MEMORY_MODULES.keys()` *)
GraphTypes(memory_types) ==
    IF IsNone(memory_types) \/ Val(memory_types) = <<>> THEN MEMORY_MODULES
    ELSE Val(memory_types)

RECURSIVE AddNodes(_, _, _, _)
(* the loop over the memories of one collection: a node for each id not yet a node *)
AddNodes(nodes, c, mem_type, ids) ==
    IF ids = <<>> THEN nodes
    ELSE LET memory_id == Head(ids)
             node == [id |-> memory_id, type |-> mem_type,
                      created_at |-> Get(c[mem_type][memory_id].meta, "created_at", 0)]
         IN  AddNodes(IF memory_id \in {nodes[i].id : i \in 1..Len(nodes)} THEN nodes
                      ELSE Append(nodes, node),
                      c, mem_type, Tail(ids))

RECURSIVE CollectNodes(_, _, _, _)
(* "First, collect all nodes": collection.get(limit=max_items) of each known type *)
CollectNodes(nodes, c, mem_types, max_items) ==
    IF mem_types = <<>> THEN nodes
    ELSE LET mem_type == Head(mem_types)
         IN  CollectNodes(IF mem_type \notin Range(MEMORY_MODULES) THEN nodes
                          ELSE AddNodes(nodes, c, mem_type,
                                        Take(SortedIds(DOMAIN c[mem_type]), max_items)),
                          c, Tail(mem_types), max_items)

(* an edge test that would not look at the node set (not the code's) *)
AnyEdge(source_id, reflection_id, node_ids) == TRUE

(* `if source_id in node_ids and reflection_id in node_ids` *)
BothNodes(source_id, reflection_id, node_ids) ==
    source_id \in node_ids /\ reflection_id \in node_ids

RECURSIVE AddEdges(_, _, _, _)
(* the loop over the source_memories of one reflection *)
AddEdges(edges, node_ids, reflection_id, source_memories) ==
    IF source_memories = <<>> THEN edges
    ELSE LET source_id == Head(source_memories)
             edge == [source |-> source_id, target |-> reflection_id, type |-> "source_of"]
         IN  AddEdges(IF BothNodes(source_id, reflection_id, node_ids)
                         /\ edge \notin Range(edges)
                      THEN Append(edges, edge) ELSE edges,
                      node_ids, reflection_id, Tail(source_memories))

RECURSIVE ReflectionEdges(_, _, _, _)
(* the loop over the reflections *)
ReflectionEdges(edges, node_ids, c, ids) ==
    IF ids = <<>> THEN edges
    ELSE LET metadata == c["reflective"][Head(ids)].meta
         IN  ReflectionEdges(IF "source_memories" \in DOMAIN metadata
                             THEN AddEdges(edges, node_ids, Head(ids),
                                           JsonLoads(metadata["source_memories"]))
                             ELSE edges,
                             node_ids, c, Tail(ids))

RECURSIVE CollectEdges(_, _, _, _, _)
(* "Now, collect edges between nodes": only the reflective type is looked at *)
CollectEdges(edges, node_ids, c, mem_types, max_items) ==
    IF mem_types = <<>> THEN edges
    ELSE CollectEdges(IF Head(mem_types) # "reflective" THEN edges
                      ELSE ReflectionEdges(edges, node_ids, c,
                                           Take(SortedIds(DOMAIN c["reflective"]), max_items)),
                      node_ids, c, Tail(mem_types), max_items)

(* the graph generate_memory_graph returns over the collections c *)
MemoryGraph(c, memory_types, max_items) ==
    LET mem_types == GraphTypes(memory_types)
        nodes     == CollectNodes(<<>>, c, mem_types, max_items)
        node_ids  == {nodes[i].id : i \in 1..Len(nodes)}
    IN  [nodes |-> nodes, edges |-> CollectEdges(<<>>, node_ids, c, mem_types, max_items)]

(* meta.generate_memory_graph(memory_types, max_items) *)
GenerateMemoryGraph(memory_types, max_items) ==
    /\ ops < MaxOps /\ ops' = ops + 1
    /\ UNCHANGED <<coll, now, nextId, layer, last, pre, gen, inflight>>
    /\ metaCall' = [op |-> "graph", memory_types |-> memory_types, max_items |-> max_items,
                    graph |-> MemoryGraph(coll, memory_types, max_items),
                    before |-> coll]

(* ----------------------- behaviour of the meta layer ------------------ *)
(* Memories are stored; a reflection is stored by a caller, naming a memory and
   an id that was never stored, or one memory twice; a reflection is generated from the recent
   memories; a memory of a source layer is deleted; old memories are pruned;
   three documents are added in batches, one of the inserts failing or none;
   the collections are reindexed, the vector store failing at some point of
   the recreation or not at all; the memory graph is generated. *)
NextMeta ==
    \/ Remember
    \/ \E sources \in {<<1, 9>>, <<1, 1>>} :
          StoreReflection(Args("r1", None, None, None, None, Some(sources)), now + 1)
    \/ GenerateReflections(Recent, "openai", Backend(0, "ok", ChunkFull), now + 1)
    \/ \E l \in {"semantic", "episodic", "procedural"} :
          \E id \in DOMAIN coll[l] : DeleteMemoryIn(l, id)
    \/ \E memory_type \in {None, Some("episodic"), Some("dreams")},
          days_to_keep \in {0, 1}, dry_run \in BOOLEAN :
          PruneOldMemories(memory_type, days_to_keep, dry_run, now + 1)
    \/ \E memory_type \in {None, Some("episodic")},
          fail \in {NoFailure} \cup {[layer |-> "episodic", at |-> k] : k \in 0..2} :
          ReindexMemory(memory_type, fail, now + 1)
    \/ \E batch_size \in {1, 2}, fail_at \in 0..2 :
          BatchAddToCollection("semantic", <<"d1", "d2", "d3">>,
                               <<EmptyMeta, EmptyMeta, EmptyMeta>>, batch_size, fail_at,
                               now + 1)
    \/ \E memory_types \in {None, Some(<<"reflective">>),
                            Some(<<"episodic", "reflective", "dreams", "reflective">>)},
          max_items \in {1, 10} :
          GenerateMemoryGraph(memory_types, max_items)

SpecMeta == InitReflect /\ [][NextMeta]_vars

(* ============================== retrieval ============================= *)
(* Scores and distances are in tenths: Unit stands for 1.0. The distances are
   what the vector index returns for the query, a cosine distance in [0, 2],
   given in the order the index returns them. *)
Unit == 10

(* `1.0 - min(results["distances"][0][i], 1.0)` *)
Relevance(distance) == Unit - (IF distance < Unit THEN distance ELSE Unit)

(* ChromaVectorStore.query: `sim = 1.0 - float(dist)` *)
Similarity(dist) == Unit - dist

(* semantic.retrieve_memories(query, limit), the index returning `distances` *)
SemanticRetrieveMemories(limit, distances) ==
    /\ ops < MaxOps /\ ops' = ops + 1
    /\ UNCHANGED <<coll, now, nextId, layer, last, pre, gen, inflight>>
    /\ LET ids == Take(SortedIds(DOMAIN coll["semantic"]), limit)
       IN  /\ Len(distances) = Len(ids)
           /\ metaCall' = [op |-> "retrieve_memories", limit |-> limit,
                           distances |-> distances,
                           results |-> [i \in 1..Len(ids) |->
                                           [id |-> ids[i],
                                            content |-> coll["semantic"][ids[i]].doc,
                                            relevance |-> Relevance(distances[i])]]]

(* stop_after_attempt(5) of OpenAIEmbeddings._embed_batch *)
EmbedAttempts == 5

(* OpenAIEmbeddings._embed_batch under its retry decorator: every APIError is
   retried, rate limits and timeouts as well as a rejected key or a rejected
   input ("fatal"), and re-raised after the last attempt; an exception that is
   no APIError ("unexpected") is raised at once as EmbeddingProviderUnavailable *)
EmbedBatch(b) ==
    IF b.fails >= EmbedAttempts THEN Raised(EmbedAttempts)
    ELSE IF b.final = "ok" THEN Returned(b.response, b.fails + 1)
    ELSE IF b.final = "fatal" THEN Raised(EmbedAttempts)
    ELSE Raised(b.fails + 1)

(* MemoryService.search(req): the query is embedded, then ChromaVectorStore.query
   runs, the index returning `distances`; a failed embedding is raised *)
Search(limit, distances, b) ==
    /\ ops < MaxOps /\ ops' = ops + 1
    /\ UNCHANGED <<coll, now, nextId, layer, last, pre, gen, inflight>>
    /\ LET q_emb == EmbedBatch(b)
           ids   == IF q_emb.raised THEN <<>>
                    ELSE Take(SortedIds(DOMAIN coll["api"]), limit)
       IN  /\ Len(distances) = Len(ids)
           /\ metaCall' = [op |-> "search", limit |-> limit,
                           distances |-> distances,
                           backend |-> b, raised |-> q_emb.raised,
                           embed_calls |-> q_emb.calls,
                           results |-> [i \in 1..Len(ids) |->
                                           [id |-> ids[i],
                                            content |-> coll["api"][ids[i]].doc,
                                            relevance |-> Similarity(distances[i])]]]

(* datetime.timedelta(days=1) in hours: the windows of a time_range are
   counted in hours, the clock in days *)
Day == 24

(* datetime.timedelta(days=30), the window of an unknown time_range format *)
DefaultDays == 30

RECURSIVE ParseInt(_)
(* int(text) for a text given as its characters: the number when the text is
   decimal digits, a ValueError (raised) otherwise, the empty text included *)
ParseInt(text) ==
    LET Digits == [c \in {"0", "1", "2", "3", "4", "5", "6", "7", "8", "9"} |->
                      CASE c = "0" -> 0 [] c = "1" -> 1 [] c = "2" -> 2 [] c = "3" -> 3
                        [] c = "4" -> 4 [] c = "5" -> 5 [] c = "6" -> 6 [] c = "7" -> 7
                        [] c = "8" -> 8 [] c = "9" -> 9]
        n == Len(text)
    IN  IF n = 0 \/ text[n] \notin DOMAIN Digits THEN [raised |-> TRUE, value |-> 0]
        ELSE IF n = 1 THEN [raised |-> FALSE, value |-> Digits[text[1]]]
        ELSE LET front == ParseInt(SubSeq(text, 1, n - 1))
             IN  IF front.raised THEN front
                 ELSE [raised |-> FALSE, value |-> front.value * 10 + Digits[text[n]]]

(* the window of `if time_range.endswith("d") ... elif endswith("h") ... else`,
   in hours before now; int() may raise *)
TimeRangeWindow(time_range) ==
    LET n     == Len(time_range)
        count == ParseInt(SubSeq(time_range, 1, n - 1))
    IN  IF time_range[n] = "d"
        THEN [raised |-> count.raised, hours |-> count.value * Day]
        ELSE IF time_range[n] = "h"
        THEN [raised |-> count.raised, hours |-> count.value]
        ELSE [raised |-> FALSE, hours |-> DefaultDays * Day]

(* episodic.retrieve_memories(query, limit, time_range) at the clock reading
   ts, the index reporting `distance` for each result; time_range is an
   Optional text given as its characters; an exception is logged and re-raised *)
EpisodicRetrieveMemories(limit, time_range, distance, ts) ==
    /\ ops < MaxOps /\ ops' = ops + 1
    /\ UNCHANGED <<coll, nextId, layer, last, pre, gen, inflight>>
    /\ now' = ts
    /\ LET filtered == ~IsNone(time_range) /\ Val(time_range) # <<>>
           window   == IF filtered THEN TimeRangeWindow(Val(time_range))
                       ELSE [raised |-> FALSE, hours |-> 0]
           ids      == IF window.raised THEN <<>>
                       ELSE Take(SelectSeq(SortedIds(DOMAIN coll["episodic"]),
                                           LAMBDA id : filtered =>
                                               EventTime(id) * Day >= ts * Day - window.hours),
                                 limit)
       IN  metaCall' = [op |-> "episodic_retrieve", limit |-> limit,
                        time_range |-> time_range, raised |-> window.raised,
                        clock |-> ts, before |-> coll["episodic"],
                        results |-> [i \in 1..Len(ids) |->
                                        [id |-> ids[i],
                                         content |-> coll["episodic"][ids[i]].doc,
                                         relevance |-> Relevance(distance)]]]

(* episodic.retrieve_by_timeframe(start_date, limit=limit) with start_date
   `days` before the clock reading ts and end_date left to default to it *)
EpisodicRetrieveByTimeframe(days, limit, ts) ==
    /\ ops < MaxOps /\ ops' = ops + 1
    /\ UNCHANGED <<coll, nextId, layer, last, pre, gen, inflight>>
    /\ now' = ts
    /\ metaCall' = [op |-> "retrieve_by_timeframe", start_date |-> ts - days,
                    end_date |-> ts, limit |-> limit,
                    results |-> RetrieveByTimeframe(ts - days, ts, limit),
                    before |-> coll["episodic"]]

(* memories are stored in the layers and through the API, and retrieved by
   similarity, the index reporting any distances in any order and the
   embedding of the query failing in each way, or by the timeframe of the
   last week or the last thirty days *)
NextRetrieve ==
    \/ Remember
    \/ \E days \in {Week, 30}, limit \in {1, 100}, ts \in ClockReads :
          EpisodicRetrieveByTimeframe(days, limit, ts)
    \/ \E time_range \in {None, Some(<<"7", "d">>), Some(<<"1", "2", "d">>),
                          Some(<<"2", "4", "h">>), Some(<<"w", "k">>),
                          Some(<<"x", "d">>), Some(<<"d">>)},
          distance \in {5, 15} :
          EpisodicRetrieveMemories(10, time_range, distance, now + 1)
    \/ \E a \in SeedInputs : CreateMemory(a, "project", now + 1)
    \/ \E limit \in {1, 2} :
          \E distances \in UNION {[1..n -> {0, 5, 10, 15, 20}] : n \in 0..limit} :
              \/ SemanticRetrieveMemories(limit, distances)
              \/ Search(limit, distances, Backend(0, "ok", <<>>))
    \/ \E b \in {Backend(1, "ok", <<>>), Backend(EmbedAttempts, "ok", <<>>),
                 Backend(0, "fatal", <<>>), Backend(0, "unexpected", <<>>)} :
          Search(1, <<>>, b)

SpecRetrieve == Init /\ [][NextRetrieve]_vars

(* ============================ concurrent calls ======================== *)
(* inflight[p] is the call p in flight: where it stands (pc), its arguments,
   and what it has read so far. Nothing is locked between the steps of a call. *)

(* the read of update call p: collection.get(ids=[id]); a missing record ends
   the call with False *)
UpdateRead(p) ==
    /\ inflight[p].pc = "called"
    /\ UNCHANGED <<coll, now, nextId, layer, ops, last, pre, gen, metaCall>>
    /\ inflight' = [inflight EXCEPT ![p] =
           IF inflight[p].id \in DOMAIN coll[layer]
           THEN [pc |-> "read", id |-> inflight[p].id, args |-> inflight[p].args,
                 existing |-> coll[layer][inflight[p].id]]
           ELSE [pc |-> "returned", id |-> inflight[p].id, args |-> inflight[p].args,
                 ok |-> FALSE]]

(* the write of update call p at clock reading ts, from what the call read:
   collection.update(ids, documents, metadatas), then `return True`
   (episodic.update_memory, affective.update_affect) *)
UpdateWrite(p, ts) ==
    /\ inflight[p].pc = "read"
    /\ UNCHANGED <<nextId, layer, ops, gen, metaCall>>
    /\ LET call   == inflight[p]
           a      == call.args
           doc    == UpdatedContent(call.existing.doc, a.content)
           merged == MergedMeta(call.existing.meta, a.metadata)
           meta   == Touched(IF layer = "affective"
                             THEN RevaluedMeta(RetaggedMeta(merged, a.tags), a.valence)
                             ELSE merged, ts)
           turn   == Cardinality({q \in DOMAIN inflight :
                                     inflight[q].pc = "returned" /\ inflight[q].ok}) + 1
       IN  /\ Written(layer, CollectionUpdate(coll[layer], call.id, doc, meta))
           /\ now' = ts
           /\ last' = Called("update", call.id, FALSE, TRUE, a)
           /\ inflight' = [inflight EXCEPT ![p] =
                  [pc |-> "returned", id |-> call.id, args |-> a, ok |-> TRUE,
                   wrote |-> [doc |-> doc, meta |-> meta], turn |-> turn]]

(* one record stored at clock reading 0 on the episodic or the affective
   layer, and two update calls on it just made *)
InitRace ==
    /\ layer \in {"episodic", "affective"}
    /\ coll = [l \in Stores |->
                 IF l # layer THEN EmptyMeta
                 ELSE CollectionAdd(EmptyMeta, 1, "c1",
                                    IF l = "episodic"
                                    THEN EpisodicStoreMeta(None, None, None, 0)
                                    ELSE TagContentMeta(None, None, 0, None, 0))]
    /\ now = 0
    /\ nextId = 2
    /\ ops = 0
    /\ last = NoCall
    /\ pre = EmptyMeta
    /\ gen = NoGen
    /\ metaCall = NoMeta
    /\ inflight \in [{1, 2} -> {[pc |-> "called", id |-> 1, args |-> a] : a \in UpdateInputs}]

NextRace ==
    \/ \E p \in DOMAIN inflight : UpdateRead(p)
    \/ \E p \in DOMAIN inflight : \E ts \in ClockReads : UpdateWrite(p, ts)

SpecRace == InitRace /\ [][NextRace]_vars

(* ------------------ a generation among other calls -------------------- *)
(* the layers _get_memories_for_reflection reads, in the order it reads them *)
SampleOrder == <<"episodic", "semantic", "procedural">>

(* the ids of the records in the three source layers *)
SourceIds == UNION {DOMAIN coll[SampleOrder[i]] : i \in 1..Len(SampleOrder)}

(* the candidates one layer contributes to all_memories *)
LayerCandidates(l, req, ts) ==
    SelectSeq(AllMemories(req.query, req.tags, req.max_source_memories, ts),
              LAMBDA m : m.memory_type = l)

(* _get_memories_for_reflection reads the next layer *)
SampleLayer(ts) ==
    /\ inflight.pc = "sampling" /\ inflight.next <= Len(SampleOrder)
    /\ LET l == SampleOrder[inflight.next]
       IN  inflight' = [inflight EXCEPT
                           !.next = @ + 1,
                           !.all_memories = @ \o LayerCandidates(l, inflight.request, ts),
                           !.seen = @ \cup DOMAIN coll[l]]
    /\ UNCHANGED <<coll, now, nextId, layer, ops, last, pre, gen, metaCall>>

(* a generation that would sample again when it stores (not the code's) *)
SampledAgain(all_memories, req, ts) ==
    GetMemoriesForReflection(req.query, req.tags, req.max_source_memories, ts)

(* `return all_memories[:max_memories]`: the candidates handed to steps 2 and 3 *)
SampledOnce(all_memories, req, ts) == Take(all_memories, req.max_source_memories)

(* generate_reflections, steps 2 and 3, on the candidates read before *)
StoreSampled(ts) ==
    /\ inflight.pc = "sampling" /\ inflight.next > Len(SampleOrder)
    /\ LET req == inflight.request
           source_memories == SampledOnce(inflight.all_memories, req, ts)
           res == ReflectionResults(source_memories, inflight.provider, inflight.backend)
           n   == Len(res.reflections)
       IN  /\ coll' = Reflected(coll, nextId, res.reflections, req.query, req.tags, ts)
           /\ nextId' = nextId + n
           /\ now' = ts
           /\ gen' = [op |-> "reflect", request |-> req, provider |-> inflight.provider,
                      backend |-> inflight.backend, source_memories |-> source_memories,
                      all_memories |-> inflight.all_memories,
                      calls |-> res.calls, raised |-> res.raised,
                      returned |-> [i \in 1..n |->
                                       [id |-> nextId + i - 1,
                                        content |-> res.reflections[i].content,
                                        source_memory_ids |-> res.reflections[i].source_memory_ids,
                                        tags |-> res.reflections[i].tags]],
                      before |-> coll["reflective"]]
           /\ inflight' = [inflight EXCEPT !.pc = "stored", !.at_store = SourceIds]
    /\ UNCHANGED <<layer, ops, last, pre, metaCall>>

(* an episodic and a semantic memory stored at clock reading 0, and a
   generation just called *)
InitSample ==
    /\ layer = "semantic"
    /\ coll = [l \in Stores |->
                 IF l = "episodic"
                 THEN CollectionAdd(EmptyMeta, 1, "e1", EpisodicStoreMeta(None, Some(<<"a">>), None, 0))
                 ELSE IF l = "semantic"
                 THEN CollectionAdd(EmptyMeta, 2, "s1",
                                    PlainStoreMeta("semantic", None, Some(<<"a">>), None, 0))
                 ELSE EmptyMeta]
    /\ now = 0
    /\ nextId = 3
    /\ ops = 0
    /\ last = NoCall
    /\ pre = EmptyMeta
    /\ gen = NoGen
    /\ metaCall = NoMeta
    /\ inflight \in {[pc |-> "sampling", next |-> 1, request |-> req, provider |-> "openai",
                      backend |-> Backend(0, "ok", ChunkFull), all_memories |-> <<>>,
                      seen |-> {}, at_store |-> {}] :
                     req \in {Recent, ByQuery, Request(None, Some(<<"a">>), 4)}}

(* the generation reads its layers and stores its reflections while memories
   are stored, updated and deleted in the source layers *)
NextSample ==
    \/ SampleLayer(now)
    \/ StoreSampled(now + 1)
    \/ Remember
    \/ \E id \in SourceIds :
          UpdateMemory(id, Args(Some("c2"), None, Some(<<"b">>), None, None, None), now + 1)
    \/ \E l \in Range(SampleOrder) : \E id \in DOMAIN coll[l] : DeleteMemoryIn(l, id)

SpecSample == InitSample /\ [][NextSample]_vars

(* ====================== properties of the layer stores ================= *)
(* the record the last call named, after and before the call *)
After == coll[layer][last.id]
Before == pre[last.id]

(* the last call was a store on one of the six layer stores *)
LayerStore == last.op = "store" /\ layer \in LayerNames

(* the last call was an update that found its record and returned True *)
UpdateHit == last.op = "update" /\ last.id \in DOMAIN pre

(* the metadata keys an update call supplied, through metadata or an argument *)
SuppliedKeys ==
    (IF IsNone(last.args.metadata) THEN {} ELSE DOMAIN Val(last.args.metadata))
    \cup (IF IsNone(last.args.tags) THEN {} ELSE {"tags"})
    \cup (IF IsNone(last.args.valence) THEN {} ELSE {"valence"})
    \cup (IF IsNone(last.args.sources) THEN {} ELSE {"source_memories"})

(* what an update leaves alone: the other records, the document when no     *)
(* content is given, and every metadata key not supplied                    *)
UpdateFrame ==
    /\ last.ok /\ ~last.raised
    /\ DOMAIN coll[layer] = DOMAIN pre
    /\ \A x \in DOMAIN pre \ {last.id} : coll[layer][x] = pre[x]
    /\ IsNone(last.args.content) => After.doc = Before.doc
    /\ ~IsNone(last.args.content) => After.doc = Val(last.args.content)
    /\ \A k \in (DOMAIN Before.meta) \ (SuppliedKeys \cup {"updated_at"}) :
           k \in DOMAIN After.meta /\ After.meta[k] = Before.meta[k]

(* C1: a layer store called with non-empty content returns an id that was  *)
(* not in the collection, the record under that id holds exactly the       *)
(* content passed in, and its created_at equals its updated_at whatever    *)
(* created_at/updated_at the caller put in the metadata argument.          *)
C1_StoreRoundTrip ==
    (LayerStore /\ last.args.content # "") =>
        /\ ~last.raised
        /\ last.id \notin DOMAIN pre
        /\ last.id \in DOMAIN coll[layer]
        /\ After.doc = last.args.content
        /\ After.meta["created_at"] = After.meta["updated_at"]
        /\ After.meta["created_at"] = now

(* a store into a non-empty collection whose caller set created_at and updated_at *)
C1_Witness ==
    /\ LayerStore /\ layer = "semantic" /\ last.args.content = "c1"
    /\ last.args.metadata = Some(CallerMeta)
    /\ pre # EmptyMeta
    /\ After.meta["created_at"] # CallerMeta["created_at"]
    /\ After.meta["note"] = "n1"

(* C2: a store call whose content is empty or whitespace-only is rejected   *)
(* with a validation error and the collection is the same after as before. *)
C2_BlankRejected ==
    (last.op = "store" /\ Strip(last.args.content) = "") =>
        (last.raised /\ coll[layer] = pre)

(* C3, as stated: an update of an existing id keeps every field it was not  *)
(* given, changes no other record, and leaves updated_at strictly greater. *)
C3_UpdatedAtStrictlyGreater ==
    UpdateHit => (UpdateFrame /\ After.meta["updated_at"] > Before.meta["updated_at"])

(* C3, amended: an update of an existing id keeps every field it was not    *)
(* given, changes no other record, and sets updated_at to the clock reading *)
(* of the call, which is never before the previous updated_at (and equals   *)
(* it when the clock has not advanced since).                              *)
C3_PartialUpdate ==
    UpdateHit =>
        /\ UpdateFrame
        /\ After.meta["updated_at"] = now
        /\ After.meta["updated_at"] >= Before.meta["updated_at"]

(* a tags-only update of one of two records, within the clock reading of its store *)
C3_Witness ==
    /\ UpdateHit /\ layer = "identity"
    /\ last.args = Args(None, None, Some(<<"z">>), None, None, None)
    /\ Cardinality(DOMAIN pre) = 2
    /\ Before.doc = "c1" /\ After.doc = "c1"
    /\ "note" \in DOMAIN Before.meta
    /\ After.meta["tags"] = <<"z">> /\ Before.meta["tags"] = <<"a", Sep, "b">>
    /\ After.meta["updated_at"] = Before.meta["updated_at"]

(* C4: an update of an id that is not in the collection returns False       *)
(* without raising, creates no record and leaves the collection unchanged. *)
C4_UpdateMissing ==
    (last.op = "update" /\ last.id \notin DOMAIN pre) =>
        /\ ~last.ok /\ ~last.raised
        /\ last.id \notin DOMAIN coll[layer]
        /\ coll[layer] = pre

(* an update, carrying content and metadata, of an id absent from a non-empty collection *)
C4_Witness ==
    /\ last.op = "update" /\ last.id \notin DOMAIN pre
    /\ pre # EmptyMeta
    /\ ~IsNone(last.args.content) /\ ~IsNone(last.args.metadata)
    /\ ~last.ok

(* C5: delete returns success whether or not the id is present; afterwards  *)
(* the id is not in the collection; a delete of an absent id (so a second   *)
(* delete) leaves the collection as it was; no other record is removed or  *)
(* modified.                                                               *)
C5_DeleteIdempotent ==
    last.op = "delete" =>
        /\ last.ok /\ ~last.raised
        /\ last.id \notin DOMAIN coll[layer]
        /\ DOMAIN coll[layer] = (DOMAIN pre) \ {last.id}
        /\ \A x \in DOMAIN coll[layer] : coll[layer][x] = pre[x]
        /\ last.id \notin DOMAIN pre => coll[layer] = pre

(* a second delete: of an id that was handed out, stored, and is already gone *)
C5_Witness ==
    /\ last.op = "delete" /\ last.ok
    /\ last.id < nextId /\ last.id \notin DOMAIN pre
    /\ coll[layer] = pre

(* C6: every record of the affective layer has valence within [-1.0, 1.0]   *)
(* and intensity within [1, 10], whatever tag_content, tag_content_auto and *)
(* update_affect were given.                                               *)
C6_AffectInRange ==
    \A id \in DOMAIN coll["affective"] :
        LET m == coll["affective"][id].meta
        IN  /\ m["valence"] \in -10..10
            /\ "intensity" \in DOMAIN m => m["intensity"] \in 1..10

(* ==================== properties of the generation ==================== *)
(* the reflective records the last generation added *)
NewReflections == (DOMAIN coll["reflective"]) \ (DOMAIN gen.before)

(* the generation left every earlier reflective record as it was *)
OnlyAdded ==
    /\ DOMAIN gen.before \subseteq DOMAIN coll["reflective"]
    /\ \A id \in DOMAIN gen.before : coll["reflective"][id] = gen.before[id]

(* the ids of the sampled candidates, in the order they were sampled *)
SampledIds == IdsOf(gen.source_memories)

(* every record the generation added lists all the sampled ids as its sources *)
FullProvenance ==
    \A id \in NewReflections :
        LET m == coll["reflective"][id].meta
        IN  "source_memories" \in DOMAIN m /\ JsonLoads(m["source_memories"]) = SampledIds

(* a generation ran and sampled at least one candidate *)
Sampled == gen.op = "reflect" /\ gen.source_memories # <<>>

(* the completion call came back with the backend's response text *)
Completed == gen.backend.fails < MaxAttempts /\ gen.backend.final = "ok"

(* the chunks of the response, blank ones left out *)
Chunks ==
    SelectSeq(SplitOn(gen.backend.response, SeparatorLine), LAMBDA c : ~BlankChunk(c))

(* line i of the chunk is a REFLECTION: header once trimmed *)
ReflectionHeaderAt(chunk, i) == StripText(chunk[i]) = <<"REFLECTION:">>

(* the chunk has a REFLECTION: section: the header line, and body text under it *)
HasReflectionSection(chunk) ==
    \E i \in 1..Len(chunk), j \in 1..Len(chunk) :
        /\ i < j
        /\ ReflectionHeaderAt(chunk, i)
        /\ StripText(chunk[j]) # <<>> /\ ~IsHeader(StripText(chunk[j]))
        /\ \A m \in (i + 1)..(j - 1) : StripText(chunk[m]) = <<>>

(* no line of the text is a REFLECTION: header *)
NoReflectionHeader(text) == \A i \in 1..Len(text) : StripText(text[i]) # <<"REFLECTION:">>

(* C7: a generation whose sampling yields no candidate returns an empty     *)
(* list, makes no completion call and stores no reflective record.         *)
C7_EmptyCandidates ==
    (gen.op = "reflect" /\ gen.source_memories = <<>>) =>
        /\ ~gen.raised
        /\ gen.returned = <<>>
        /\ gen.calls = 0
        /\ coll["reflective"] = gen.before

(* a tag-filtered generation over non-empty source layers that matched nothing *)
C7_Witness ==
    /\ gen.op = "reflect" /\ gen.source_memories = <<>>
    /\ gen.request = ByTags
    /\ coll["semantic"] # EmptyMeta
    /\ gen.calls = 0

(* C8: with candidates sampled and a response of k >= 1 chunks that each    *)
(* have a REFLECTION: section, exactly k reflective records are added, and  *)
(* each lists all the sampled candidate ids as its source_memories.        *)
C8_OneRecordPerChunk ==
    (/\ Sampled /\ Completed
     /\ Len(Chunks) >= 1
     /\ \A i \in 1..Len(Chunks) : HasReflectionSection(Chunks[i])) =>
        /\ ~gen.raised
        /\ Len(gen.returned) = Len(Chunks)
        /\ Cardinality(NewReflections) = Len(Chunks)
        /\ OnlyAdded
        /\ FullProvenance

(* three chunks, candidates of two layers, three records with all the sampled ids *)
C8_Witness ==
    /\ Sampled /\ Completed
    /\ Len(Chunks) = 3 /\ \A i \in 1..3 : HasReflectionSection(Chunks[i])
    /\ Cardinality(NewReflections) = 3
    /\ Len(SampledIds) = 2
    /\ gen.source_memories[1].memory_type # gen.source_memories[2].memory_type

(* C9: with candidates sampled and a response text without any REFLECTION:  *)
(* header (the empty response included), exactly one reflective record is   *)
(* added: the fallback, whose content says that no pattern was identified   *)
(* and whose tags are general and reflection, with all the sampled ids as   *)
(* its source_memories; nothing is raised.                                 *)
C9_NoSectionFallback ==
    (Sampled /\ Completed /\ NoReflectionHeader(gen.backend.response)) =>
        /\ ~gen.raised
        /\ Len(gen.returned) = 1
        /\ gen.returned[1].content = NoPatternContent
        /\ gen.returned[1].tags = <<"general", "reflection">>
        /\ NewReflections = {gen.returned[1].id}
        /\ coll["reflective"][gen.returned[1].id].doc = NoPatternContent
        /\ coll["reflective"][gen.returned[1].id].meta["tags"]
               = JoinTags(<<"general", "reflection">> \o BaseTags(gen.request.tags))
        /\ OnlyAdded
        /\ FullProvenance

(* an empty response to a generation that sampled candidates *)
C9_Witness ==
    /\ Sampled /\ Completed
    /\ gen.backend.response = <<>>
    /\ Cardinality(NewReflections) = 1
    /\ gen.calls = 1

(* C10: with candidates sampled and a completion call that fails (retries   *)
(* exhausted, or an error that is not retried), nothing is raised, exactly  *)
(* one reflection is returned and stored, its content names the failure,   *)
(* and it lists all the sampled ids as its source_memories.                *)
C10_FailureNamed ==
    (Sampled /\ ~Completed) =>
        /\ ~gen.raised
        /\ Len(gen.returned) = 1
        /\ gen.returned[1].content[1] = "Error generating reflections: "
        /\ Cardinality(NewReflections) = 1
        /\ OnlyAdded
        /\ FullProvenance

(* the layers reflection generation samples from *)
SourceLayers == {"semantic", "episodic", "procedural"}

(* C11: a generate_reflections call leaves the semantic, episodic and       *)
(* procedural collections (and every collection but the reflective one)     *)
(* exactly as they were, and only adds records to the reflective one.      *)
C11_SourcesOnlyRead ==
    [][(gen' # gen) =>
          /\ \A l \in Stores \ {"reflective"} : coll'[l] = coll[l]
          /\ \A id \in DOMAIN coll["reflective"] :
                 id \in DOMAIN coll'["reflective"]
                 /\ coll'["reflective"][id] = coll["reflective"][id]]_vars

(* a generation that read two source layers and stored a reflection *)
C11_Witness ==
    /\ Sampled
    /\ Len(gen.returned) >= 1
    /\ coll["episodic"] # EmptyMeta /\ coll["semantic"] # EmptyMeta
    /\ Cardinality(NewReflections) >= 1

(* ====================== properties of the meta layer ================== *)
(* the records of layer l in c whose created_at is older than cut *)
OlderThan(c, l, cut) ==
    {id \in DOMAIN c[l] :
        "created_at" \in DOMAIN c[l][id].meta /\ c[l][id].meta["created_at"] < cut}

(* C12: a prune with dry_run=True changes no collection and reports, for each
   requested layer, the number of records whose created_at is older than the
   cutoff; the same call with dry_run=False removes from each requested layer
   exactly those records (so exactly that number), reports that number, and
   removes no record whose created_at is at or after the cutoff. *)
C12_PruneExact ==
    [][(metaCall' # metaCall /\ metaCall'.op = "prune") =>
        LET m   == metaCall'
            cut == m.cutoff_date
        IN  \A l \in Stores :
              LET old == OlderThan(coll, l, cut)
              IN  /\ m.dry_run => coll'[l] = coll[l]
                  /\ l \notin DOMAIN m.results => coll'[l] = coll[l]
                  /\ (l \in DOMAIN m.results /\ m.dry_run) =>
                        /\ m.results[l].status = "dry_run"
                        /\ m.results[l].memories_to_delete = Cardinality(old)
                  /\ (l \in DOMAIN m.results /\ ~m.dry_run) =>
                        /\ DOMAIN coll'[l] = DOMAIN coll[l] \ old
                        /\ \A id \in DOMAIN coll'[l] : coll'[l][id] = coll[l][id]
                        /\ Cardinality(DOMAIN coll[l]) - Cardinality(DOMAIN coll'[l])
                              = Cardinality(old)
                        /\ old # {} => /\ m.results[l].status = "success"
                                       /\ m.results[l].memories_deleted = Cardinality(old)
                        /\ old = {} => m.results[l].memories_to_delete = 0
       ]_vars

(* a prune that removed a record older than the cutoff and kept one created
   exactly at the cutoff *)
C12_Witness ==
    /\ metaCall.op = "prune" /\ ~metaCall.dry_run
    /\ \E l \in DOMAIN metaCall.results :
          /\ l \in Stores
          /\ metaCall.results[l].status = "success"
          /\ metaCall.results[l].memories_deleted = 1
          /\ \E id \in DOMAIN metaCall.before[l] :
                /\ metaCall.before[l][id].meta["created_at"] < metaCall.cutoff_date
                /\ id \notin DOMAIN coll[l]
          /\ \E id \in DOMAIN metaCall.before[l] :
                /\ metaCall.before[l][id].meta["created_at"] = metaCall.cutoff_date
                /\ id \in DOMAIN coll[l]

(* the graph and the collections of the last generate_memory_graph call *)
GraphCall == metaCall.op = "graph"

NodeIds == {metaCall.graph.nodes[i].id : i \in 1..Len(metaCall.graph.nodes)}

(* the ids a reflective record of the graphed collections lists as sources *)
ListedSources(r) ==
    LET metadata == metaCall.before["reflective"][r].meta
    IN  IF "source_memories" \in DOMAIN metadata
        THEN Range(JsonLoads(metadata["source_memories"])) ELSE {}

(* C13: in the graph generate_memory_graph returns, no two nodes share an id
   and every node is a record of a requested layer (each of the first
   max_items records of a requested layer has its node); for every reflective
   record that is a node there is an edge from each listed source id that is a
   node to the reflection, once, and there is no other edge: entries naming a
   deleted record or a record of a layer left out of the request give no edge,
   so both endpoints of every edge are nodes. *)
C13_GraphEdges ==
    GraphCall =>
        LET g     == metaCall.graph
            c     == metaCall.before
            types == Range(GraphTypes(metaCall.memory_types)) \cap Range(MEMORY_MODULES)
            Pairs == {<<g.edges[i].source, g.edges[i].target>> : i \in 1..Len(g.edges)}
        IN  /\ \A i, j \in 1..Len(g.nodes) : g.nodes[i].id = g.nodes[j].id => i = j
            /\ \A i \in 1..Len(g.nodes) :
                  g.nodes[i].type \in types /\ g.nodes[i].id \in DOMAIN c[g.nodes[i].type]
            /\ \A l \in types : \A id \in DOMAIN c[l] :
                  Cardinality({x \in DOMAIN c[l] : x < id}) < metaCall.max_items
                      => id \in NodeIds
            /\ \A i, j \in 1..Len(g.edges) : g.edges[i] = g.edges[j] => i = j
            /\ Pairs = {<<s, r>> \in NodeIds \X (NodeIds \cap DOMAIN c["reflective"]) :
                            s \in ListedSources(r)}
            /\ \A e \in Range(g.edges) : e.source \in NodeIds /\ e.target \in NodeIds

(* a graph over a reflection that lists one stored memory and one id that is
   no record: exactly one edge, to the stored memory *)
C13_Witness ==
    /\ GraphCall
    /\ Len(metaCall.graph.edges) = 1
    /\ \E r \in NodeIds \cap DOMAIN metaCall.before["reflective"] :
          /\ ListedSources(r) = {1, 9}
          /\ 1 \in NodeIds /\ 9 \notin NodeIds
          /\ metaCall.graph.edges[1].source = 1 /\ metaCall.graph.edges[1].target = r

(* the reflective record r is itself selected by the prune of this step *)
PrunesReflection(r) ==
    /\ metaCall' # metaCall /\ metaCall'.op = "prune" /\ ~metaCall'.dry_run
    /\ "reflective" \in DOMAIN metaCall'.results
    /\ coll["reflective"][r].meta["created_at"] < metaCall'.cutoff_date

(* C14: a step that removes a record of a source layer (delete_memory or
   prune_old_memories) removes no reflective record on account of it: every
   reflective record, and so every one that lists the removed id in
   source_memories, is still there with the same content and the same
   source_memories, unless the prune of that step selects the reflective
   record itself by its own created_at. *)
C14_NoCascade ==
    [][(\E l \in SourceLayers : (DOMAIN coll[l]) \ (DOMAIN coll'[l]) # {}) =>
        \A r \in DOMAIN coll["reflective"] :
            ~PrunesReflection(r) =>
                /\ r \in DOMAIN coll'["reflective"]
                /\ coll'["reflective"][r] = coll["reflective"][r]
       ]_vars

(* after a prune over all layers, a reflection that was created at the cutoff
   is kept and still lists a memory the prune removed *)
C14_Witness ==
    /\ metaCall.op = "prune" /\ ~metaCall.dry_run
    /\ "reflective" \in DOMAIN metaCall.results
    /\ \E r \in DOMAIN coll["reflective"] \cap DOMAIN metaCall.before["reflective"] :
          /\ coll["reflective"][r] = metaCall.before["reflective"][r]
          /\ \E s \in Range(JsonLoads(coll["reflective"][r].meta["source_memories"])) :
                /\ \E l \in SourceLayers : s \in DOMAIN metaCall.before[l]
                /\ \A l \in Stores : s \notin DOMAIN coll[l]

(* =================== properties of the sampling ======================= *)
(* the generation took the tags branch: tags given, no query *)
TagsBranch ==
    /\ gen.op = "reflect"
    /\ IsNone(gen.request.query) \/ Val(gen.request.query) = ""
    /\ ~IsNone(gen.request.tags) /\ Val(gen.request.tags) # <<>>

(* C15: in the tags branch every candidate sampled from the semantic,
   episodic and procedural layers carries all of the requested tags. *)
C15_AllRequestedTags ==
    TagsBranch =>
        \A i \in 1..Len(gen.source_memories) :
            LET memory == gen.source_memories[i]
            IN  \A tag \in Range(Val(gen.request.tags)) :
                    ContainsTag(coll[memory.memory_type][memory.id].meta, tag)

(* C16: in every sampling branch the candidates handed to the completion step
   are at most max_source_memories and are the first ones collected, in the
   order collected: a prefix of all_memories, cut only by the maximum. *)
C16_PrefixOfCollected ==
    gen.op = "reflect" =>
        LET kept == gen.source_memories
            all  == gen.all_memories
            max  == gen.request.max_source_memories
        IN  /\ Len(kept) <= max
            /\ Len(kept) <= Len(all)
            /\ \A i \in 1..Len(kept) : kept[i] = all[i]
            /\ Len(kept) < Len(all) => Len(kept) = max

(* a recency sampling that collected an episodic and then a semantic memory
   and handed both over in that order *)
C16_Witness ==
    /\ gen.op = "reflect" /\ gen.request = Recent
    /\ Len(gen.source_memories) = 2
    /\ gen.source_memories[1].memory_type = "episodic"
    /\ gen.source_memories[2].memory_type = "semantic"
    /\ gen.source_memories[1].id > gen.source_memories[2].id

(* ===================== properties of the retrieval ==================== *)
(* a similarity retrieval was made (by a layer or by the service) *)
Retrieved == metaCall.op \in {"retrieve_memories", "search"}

(* C17: every relevance score of a similarity retrieval is in [0, 1] and is
   1 - min(distance, 1), on every retrieval path and for distances above 1
   too; when the distances come in ascending order the scores are
   non-increasing in result order. *)
C17_RelevanceInUnit ==
    Retrieved =>
        LET r == metaCall.results
            d == metaCall.distances
        IN  /\ \A i \in 1..Len(r) :
                  /\ 0 <= r[i].relevance /\ r[i].relevance <= Unit
                  /\ r[i].relevance = Unit - (IF d[i] < Unit THEN d[i] ELSE Unit)
            /\ (\A i \in 1..(Len(d) - 1) : d[i] <= d[i + 1])
                  => \A i \in 1..(Len(r) - 1) : r[i].relevance >= r[i + 1].relevance

(* a retrieve_by_timeframe call was made *)
ByTimeframe == metaCall.op = "retrieve_by_timeframe"

(* the event_time of an episodic record at the time of the call *)
EventTimeThen(id) == metaCall.before[id].meta["event_time"]

(* C18: retrieve_by_timeframe(start, end) returns only stored episodic records
   whose event_time lies in [start, end]; below the limit it returns every
   such record. So a record whose event_time is more than 7 and less than 30
   days before now is left out of the last week and is in the last thirty
   days; a record stored without event_time counts with its creation time. *)
C18_WithinTimeframe ==
    ByTimeframe =>
        LET ids == {metaCall.results[i].id : i \in 1..Len(metaCall.results)}
            InRange(id) == /\ EventTimeThen(id) >= metaCall.start_date
                           /\ EventTimeThen(id) <= metaCall.end_date
        IN  /\ Len(metaCall.results) <= metaCall.limit
            /\ \A id \in ids : id \in DOMAIN metaCall.before /\ InRange(id)
            /\ Len(metaCall.results) < metaCall.limit =>
                  \A id \in DOMAIN metaCall.before : InRange(id) => id \in ids
            /\ \A id \in DOMAIN metaCall.before :
                  (EventTimeThen(id) < metaCall.end_date - Week
                       /\ metaCall.start_date = metaCall.end_date - Week) => id \notin ids

(* the last thirty days returned a record that the last week, asked of the
   same collection at the same time, leaves out *)
C18_Witness ==
    /\ ByTimeframe
    /\ metaCall.start_date = metaCall.end_date - 30
    /\ coll["episodic"] = metaCall.before /\ now = metaCall.end_date
    /\ \E i \in 1..Len(metaCall.results) :
          LET id == metaCall.results[i].id
          IN  /\ EventTime(id) < now - Week
              /\ id \notin Range(IdsOf(RetrieveByTimeframe(now - Week, now, metaCall.limit)))

(* ===================== properties of the timestamps =================== *)
(* C19: every stored record of the layer has updated_at >= created_at,
   whatever store and update calls were made and whatever metadata the
   callers passed. *)
C19_UpdatedNotBeforeCreated ==
    \A id \in DOMAIN coll[layer] :
        LET m == coll[layer][id].meta
        IN  ("created_at" \in DOMAIN m /\ "updated_at" \in DOMAIN m)
                => m["updated_at"] >= m["created_at"]

(* =================== properties of the capability calls =============== *)
(* what the completion call of the last generation did, seen by its caller *)
CompletionCall == GenerateText(gen.provider, gen.backend)

(* C20: a completion call makes at most MaxAttempts attempts, retrying only
   transient failures and raising when they persist; a failure that is not
   transient (a rejected key, a malformed input) ends the call at its first
   occurrence, with no further attempt, and is raised to the caller, not
   returned as a result. *)
C20_FailureSurfaced ==
    (Sampled /\ gen.provider = "openai") =>
        /\ gen.calls = CompletionCall.calls
        /\ gen.calls <= MaxAttempts
        /\ gen.backend.fails >= MaxAttempts =>
              CompletionCall.raised /\ gen.calls = MaxAttempts
        /\ (gen.backend.fails < MaxAttempts /\ gen.backend.final = "ok") =>
              ~CompletionCall.raised /\ gen.calls = gen.backend.fails + 1
        /\ (gen.backend.fails < MaxAttempts /\ gen.backend.final = "fatal") =>
              CompletionCall.raised /\ gen.calls = gen.backend.fails + 1

(* ===================== properties of the time range =================== *)
(* the text is decimal digits followed by d or h *)
WellFormedRange(text) ==
    /\ Len(text) >= 2
    /\ text[Len(text)] \in {"d", "h"}
    /\ \A i \in 1..(Len(text) - 1) :
          text[i] \in {"0", "1", "2", "3", "4", "5", "6", "7", "8", "9"}

(* the ids an episodic retrieval with a time_range returned *)
RangedCall ==
    /\ metaCall.op = "episodic_retrieve"
    /\ ~IsNone(metaCall.time_range)

(* the records of the collection whose event_time is within `hours` of the call *)
WithinHours(hours) ==
    {id \in DOMAIN metaCall.before :
        metaCall.before[id].meta["event_time"] * Day >= metaCall.clock * Day - hours}

(* C21: a time_range that is not digits followed by d or h never makes the
   retrieval raise and restricts it to the last 30 days (a well-formed one
   restricts it to the last N days or hours). *)
C21_UnknownRangeFallsBack ==
    RangedCall =>
        LET ids == {metaCall.results[i].id : i \in 1..Len(metaCall.results)}
        IN  /\ ~metaCall.raised
            /\ ~WellFormedRange(Val(metaCall.time_range))
                  => ids = WithinHours(DefaultDays * Day)

(* ==================== properties of concurrent calls ================== *)
(* both update calls have returned *)
BothReturned == \A p \in DOMAIN inflight : inflight[p].pc = "returned"

(* C22: two update calls on one record, each a read and then a write with
   nothing locked in between: in every interleaving both return True, the
   record is still there once, and its document and metadata are exactly
   those written by the call that wrote last. *)
C22_LastWriteWins ==
    (DOMAIN inflight = {1, 2} /\ BothReturned) =>
        /\ \A p \in {1, 2} : inflight[p].ok
        /\ DOMAIN coll[layer] = {1}
        /\ \E p \in {1, 2} :
              /\ inflight[p].turn = 2
              /\ coll[layer][1] = inflight[p].wrote

(* both calls read before either wrote; the first writer set the content,
   the second wrote the content it had read: the first write is lost *)
C22_Witness ==
    /\ DOMAIN inflight = {1, 2} /\ BothReturned
    /\ \E p, q \in {1, 2} :
          /\ inflight[p].turn = 1 /\ inflight[q].turn = 2
          /\ inflight[p].args.content = Some("c2")
          /\ inflight[p].wrote.doc = "c2"
          /\ IsNone(inflight[q].args.content)
          /\ coll[layer][1].doc = "c1"

(* ======================= properties of the reindex ==================== *)
(* the last call was a reindex during which the recreation of the episodic
   collection failed *)
ReindexInterrupted ==
    /\ metaCall.op = "reindex"
    /\ metaCall.fail # NoFailure
    /\ "episodic" \in DOMAIN metaCall.results
    /\ Interrupted(metaCall.before, "episodic", metaCall.fail)

(* C23: a reindex interrupted after the old collection was deleted does not
   raise, still processes the other collections, and reports for the
   interrupted collection a status with the counts before and after. *)
C23_PartialReported ==
    ReindexInterrupted =>
        /\ ~metaCall.raised
        /\ \A l \in DOMAIN metaCall.results \ {"episodic"} :
              metaCall.results[l].status = "success"
        /\ "count_before" \in DOMAIN metaCall.results["episodic"]
        /\ "count_after" \in DOMAIN metaCall.results["episodic"]

(* C29: a reindex during which nothing fails is a round trip: each reindexed
   collection holds the same records as before (ids, documents, metadata),
   count_after equals count_before and the status of the collection is
   success; the other collections are not touched. *)
C29_ReindexRoundTrip ==
    [][(metaCall' # metaCall /\ metaCall'.op = "reindex"
            /\ \A l \in DOMAIN metaCall'.results :
                   l \in Stores => ~Interrupted(coll, l, metaCall'.fail)) =>
        /\ coll' = coll
        /\ \A l \in DOMAIN metaCall'.results :
              /\ metaCall'.results[l].status = "success"
              /\ metaCall'.results[l].count_before = Cardinality(DOMAIN coll[l])
              /\ metaCall'.results[l].count_after = metaCall'.results[l].count_before
       ]_vars

(* an episodic collection of two records reindexed in two batches *)
C29_Witness ==
    /\ metaCall.op = "reindex" /\ metaCall.fail = NoFailure
    /\ metaCall.results["episodic"].status = "success"
    /\ metaCall.results["episodic"].count_after = 2
    /\ coll["episodic"] = metaCall.before["episodic"]
    /\ Len(Batches(AllData(coll["episodic"]), BatchSize)) = 2

(* ==================== properties of the batched insert ================ *)
RECURSIVE Concat(_)
Concat(chunks) == IF chunks = <<>> THEN <<>> ELSE Head(chunks) \o Concat(Tail(chunks))

(* C24: a batched insert writes consecutive chunks of batch_size that cover
   every record once in input order; when the insert of a chunk fails, the
   call reports how many records were committed: the records of the chunks
   before the failing one, no later chunk being written. *)
C24_CommittedReported ==
    metaCall.op = "batch_add" =>
        LET chunks == Batches(metaCall.ids, metaCall.batch_size)
        IN  /\ Concat(chunks) = metaCall.ids
            /\ \A k \in 1..Len(chunks) :
                  /\ Len(chunks[k]) <= metaCall.batch_size
                  /\ k < Len(chunks) => Len(chunks[k]) = metaCall.batch_size
            /\ ~metaCall.outcome.raised => metaCall.outcome.returned = metaCall.ids
            /\ metaCall.outcome.raised =>
                  /\ "committed" \in DOMAIN metaCall.outcome
                  /\ metaCall.outcome.committed
                        = (metaCall.fail_at - 1) * metaCall.batch_size

(* ================= properties of the fixed record fields ============== *)
(* C25: an update leaves the record under its id, in its collection and in no
   other, with the memory_type and the created_at it was stored with,
   whatever keys the caller passes in the update's metadata. *)
C25_FixedOnceStored ==
    UpdateHit =>
        /\ DOMAIN coll[layer] = DOMAIN pre
        /\ \A l \in Stores \ {layer} : last.id \notin DOMAIN coll[l]
        /\ \A k \in {"memory_type", "created_at"} \cap DOMAIN Before.meta :
              k \in DOMAIN After.meta /\ After.meta[k] = Before.meta[k]


(* the chunks of the response that hold a REFLECTION: header line *)
HeaderChunks == {i \in 1..Len(Chunks) : \E j \in 1..Len(Chunks[i]) : ReflectionHeaderAt(Chunks[i], j)}

(* C26: a chunk of the response produces a reflection if and only if it     *)
(* holds a REFLECTION: header line: when some chunk holds one, the parsed   *)
(* reflections are as many as those chunks and none is the fallback.        *)
C26_ReflectionIffHeader ==
    (Sampled /\ Completed /\ HeaderChunks # {}) =>
        /\ ~gen.raised
        /\ Len(gen.returned) = Cardinality(HeaderChunks)
        /\ \A k \in 1..Len(gen.returned) : gen.returned[k].content # NoPatternContent


(* C27: retrieve_by_timeframe returns its results most recent first: in     *)
(* descending order of event_time.                                          *)
C27_MostRecentFirst ==
    ByTimeframe =>
        \A i \in 1..Len(metaCall.results), j \in 1..Len(metaCall.results) :
            i < j => EventTimeThen(metaCall.results[i].id) >= EventTimeThen(metaCall.results[j].id)


(* the candidates collected from layer t *)
CollectedOf(t) ==
    Cardinality({i \in 1..Len(gen.all_memories) : gen.all_memories[i].memory_type = t})

(* the generation was asked with a query or with tags *)
QueryOrTags ==
    \/ ~IsNone(gen.request.query) /\ Val(gen.request.query) # ""
    \/ ~IsNone(gen.request.tags) /\ Val(gen.request.tags) # <<>>

(* C30: each layer contributes at most the floor of its share of the budget: *)
(* a third per layer with a query or tags, else half for episodic and a      *)
(* quarter each for semantic and procedural; so with a query or tags and a   *)
(* budget under 3 there is no candidate, no completion call and no new       *)
(* reflective record.                                                        *)
C30_FloorShares ==
    gen.op = "reflect" =>
        LET max == gen.request.max_source_memories
        IN  /\ QueryOrTags =>
                  \A t \in {"episodic", "semantic", "procedural"} : CollectedOf(t) <= max \div 3
            /\ ~QueryOrTags =>
                  /\ CollectedOf("episodic") <= max \div 2
                  /\ CollectedOf("semantic") <= max \div 4
                  /\ CollectedOf("procedural") <= max \div 4
            /\ (QueryOrTags /\ max < 3) =>
                  /\ gen.source_memories = <<>>
                  /\ gen.calls = 0
                  /\ gen.returned = <<>>
                  /\ coll["reflective"] = gen.before

(* a generation by tag with a budget of 2 that found nothing, made just     *)
(* after two records carrying the tag had been stored in the semantic layer *)
C30_Witness ==
    /\ gen.op = "reflect" /\ gen.request = Request(None, Some(<<"a">>), 2)
    /\ gen.calls = 0 /\ gen.source_memories = <<>>
    /\ Cardinality({id \in DOMAIN coll["semantic"] :
                       ContainsTag(coll["semantic"][id].meta, "a")}) = 2
    /\ \A l \in {"episodic", "semantic", "procedural"} :
          \A id \in DOMAIN coll[l] : coll[l][id].meta["created_at"] < now


(* the ids a stored reflective record lists as its sources *)
SourcesOf(id) == Range(JsonLoads(coll["reflective"][id].meta["source_memories"]))

(* C28: every id in the source_memories of a reflective record that the      *)
(* generation created was the id of a record present in a source layer when *)
(* the generation read that layer, whatever was stored, updated or deleted  *)
(* before it stored the reflection.                                         *)
C28_SourcesExistedWhenSampled ==
    inflight.pc = "stored" =>
        \A id \in DOMAIN coll["reflective"] : SourcesOf(id) \subseteq inflight.seen

(* a reflection was stored whose source had been deleted after it was sampled *)
C28_Witness ==
    /\ inflight.pc = "stored"
    /\ \E id \in DOMAIN coll["reflective"] :
          \E src \in SourcesOf(id) : src \in inflight.seen /\ src \notin inflight.at_store

====
